---------------------------- MODULE Spec2Model ----------------------------
(***************************************************************************)
(* A model of the Intel VT-x core of shittyvisor-rs: the capability-aware  *)
(* control adjuster, the GDT-entry unpacker, the identity page tables and  *)
(* the per-CPU VMX bring-up (Vmx::run).                                     *)
(*                                                                         *)
(* Register-sized values (u16/u32/u64) are modelled as the set of their    *)
(* set bit positions: | is union, & is intersection, a cast to u32 keeps   *)
(* the positions 0..31.  Quantities the code does arithmetic on            *)
(* (selectors, GDT indices, page-frame numbers) are naturals.              *)
(***************************************************************************)
EXTENDS Naturals, Integers, Sequences, FiniteSets, TLC

-----------------------------------------------------------------------------
(* Bit vectors *)

U64Bits == 0..63
U32Bits == 0..31

BitOr(a, b) == a \cup b

BitAnd(a, b) == a \cap b

AsU32(a) == a \cap U32Bits

Shr(a, n) == {b - n : b \in {x \in a : x >= n}}

Shl(a, n, width) == {b + n : b \in {x \in a : x + n < width}}

RECURSIVE Pow2(_)
Pow2(n) == IF n = 0 THEN 1 ELSE 2 * Pow2(n - 1)

RECURSIVE ToNat(_)
ToNat(a) ==
    IF a = {} THEN 0
    ELSE LET b == CHOOSE x \in a : \A y \in a : y <= x
         IN  Pow2(b) + ToNat(a \ {b})

FromNat(n) == {b \in 0..30 : (n \div Pow2(b)) % 2 = 1}

-----------------------------------------------------------------------------
(* Model-specific registers *)

CapMsrs ==
    { "IA32_VMX_PINBASED_CTLS", "IA32_VMX_TRUE_PINBASED_CTLS",
      "IA32_VMX_PROCBASED_CTLS", "IA32_VMX_TRUE_PROCBASED_CTLS",
      "IA32_VMX_EXIT_CTLS", "IA32_VMX_TRUE_EXIT_CTLS",
      "IA32_VMX_ENTRY_CTLS", "IA32_VMX_TRUE_ENTRY_CTLS",
      "IA32_VMX_PROCBASED_CTLS2" }

MsrNames ==
    CapMsrs \cup
    { "IA32_VMX_BASIC", "IA32_FEATURE_CONTROL",
      "IA32_VMX_CR0_FIXED0", "IA32_VMX_CR0_FIXED1",
      "IA32_VMX_CR4_FIXED0", "IA32_VMX_CR4_FIXED1",
      "IA32_FS_BASE", "IA32_GS_BASE", "IA32_DEBUGCTL",
      "IA32_SYSENTER_CS", "IA32_SYSENTER_ESP", "IA32_SYSENTER_EIP" }

VmxControl == {"PinBased", "ProcessorBased", "ProcessorBased2", "VmExit", "VmEntry"}

IA32_VMX_BASIC_VMX_CONTROLS_FLAG == 55

VARIABLES
    msr,        \* the CPU's MSR file: MSR name -> u64
    msr_log,    \* the rdmsr/wrmsr instructions executed so far, in order
    gdt,        \* the CPU's current GDT: a sequence of GdtEntry, gdt[k] is entry k-1
    adj,        \* one call of adjust_vmx_controls: its arguments and its result
    unp,        \* one call of unpack_gdt_entry: its selector and its result
    pt,         \* a PageTables value and the position of build_identity in it
    cr0,        \* the CPU's CR0
    cr4,        \* the CPU's CR4
    seg,        \* the CPU's segment selectors: cs, ss, ds, es, fs, gs, ldtr, tr
    vmxcpu,     \* the CPU's VMX state: root operation, and the state of the VMCS
    vmcs,       \* the fields written to the VMCS: field name -> u64
    vmx_log,    \* the VMX instructions executed so far, in order
    vmx,        \* the Vmx value run works on
    pc,         \* the position of Vmx::run
    outcome,    \* what Vmx::run has returned, or that it panicked
    cpu,        \* the CPU run is called on: CPUID vendor, VMX feature bit, CR4 at the call
    launch,     \* the RFLAGS launch_vm returned and what vm_succeed made of them
    vx          \* one call of vmexit_handler: the VM exit it sees and what it does

\* what the pure functions' specifications leave alone
runVars == <<cr0, cr4, seg, vmxcpu, vmcs, vmx_log, vmx, pc, outcome, cpu, launch>>

vars == <<msr, msr_log, gdt, adj, unp, pt, cr0, cr4, seg, vmxcpu, vmcs, vmx_log, vmx,
          pc, outcome, cpu, launch, vx>>

RdMsr(name) == <<"rdmsr", name>>

WrMsr(name) == <<"wrmsr", name>>

-----------------------------------------------------------------------------
(* adjust_vmx_controls *)

CapMsrFlipped(control, true_cap_msr_supported) ==
    CASE control = "PinBased" /\ ~true_cap_msr_supported -> "IA32_VMX_TRUE_PINBASED_CTLS"
      [] control = "PinBased" /\ true_cap_msr_supported -> "IA32_VMX_PINBASED_CTLS"
      [] control = "ProcessorBased" /\ ~true_cap_msr_supported -> "IA32_VMX_TRUE_PROCBASED_CTLS"
      [] control = "ProcessorBased" /\ true_cap_msr_supported -> "IA32_VMX_PROCBASED_CTLS"
      [] control = "VmExit" /\ ~true_cap_msr_supported -> "IA32_VMX_TRUE_EXIT_CTLS"
      [] control = "VmExit" /\ true_cap_msr_supported -> "IA32_VMX_EXIT_CTLS"
      [] control = "VmEntry" /\ ~true_cap_msr_supported -> "IA32_VMX_TRUE_ENTRY_CTLS"
      [] control = "VmEntry" /\ true_cap_msr_supported -> "IA32_VMX_ENTRY_CTLS"
      [] control = "ProcessorBased2" -> "IA32_VMX_PROCBASED_CTLS2"

CapMsr(control, true_cap_msr_supported) ==
    CASE control = "PinBased" /\ true_cap_msr_supported -> "IA32_VMX_TRUE_PINBASED_CTLS"
      [] control = "PinBased" /\ ~true_cap_msr_supported -> "IA32_VMX_PINBASED_CTLS"
      [] control = "ProcessorBased" /\ true_cap_msr_supported -> "IA32_VMX_TRUE_PROCBASED_CTLS"
      [] control = "ProcessorBased" /\ ~true_cap_msr_supported -> "IA32_VMX_PROCBASED_CTLS"
      [] control = "VmExit" /\ true_cap_msr_supported -> "IA32_VMX_TRUE_EXIT_CTLS"
      [] control = "VmExit" /\ ~true_cap_msr_supported -> "IA32_VMX_EXIT_CTLS"
      [] control = "VmEntry" /\ true_cap_msr_supported -> "IA32_VMX_TRUE_ENTRY_CTLS"
      [] control = "VmEntry" /\ ~true_cap_msr_supported -> "IA32_VMX_ENTRY_CTLS"
      [] control = "ProcessorBased2" -> "IA32_VMX_PROCBASED_CTLS2"

EffectiveValueAndFirst(requested32, allowed0, allowed1) ==
    BitOr(BitAnd(requested32, allowed1), allowed0)

EffectiveValue(requested32, allowed0, allowed1) ==
    BitAnd(BitOr(requested32, allowed0), allowed1)

u32_try_from_truncating(requested_value) == TRUE

\* u32::try_from(requested_value) is Ok for a value below 2^32
u32_try_from_is_ok(requested_value) == requested_value \subseteq U32Bits

\* u32::try_from(requested_value).unwrap() panics on a value of 2^32 or more.
adjust_vmx_controls(msrs, control, requested_value) ==
    LET vmx_basic == msrs["IA32_VMX_BASIC"]
        true_cap_msr_supported == IA32_VMX_BASIC_VMX_CONTROLS_FLAG \in vmx_basic
        cap_msr == CapMsr(control, true_cap_msr_supported)
        capabilities == msrs[cap_msr]
        allowed0 == AsU32(capabilities)
        allowed1 == AsU32(Shr(capabilities, 32))
        fits == u32_try_from_is_ok(requested_value)
    IN  [ panicked |-> ~fits,
          reads |-> <<RdMsr("IA32_VMX_BASIC"), RdMsr(cap_msr)>>,
          cap_msr |-> cap_msr,
          value |-> IF fits THEN EffectiveValue(requested_value, allowed0, allowed1)
                    ELSE {} ]

-----------------------------------------------------------------------------
(* unpack_gdt_entry *)

GDT_ENTRY_SIZE == 8

GDT_ENTRY_ACCESS_PRESENT == 7

VMX_INFO_SEGMENT_UNUSABLE == 16

LimitHighMask == 0..3

GranularityFlagsMask == 4..7

AccessRightsMask == (0..7) \cup (12..15)

GdtEntry(limit_low, base_low, base_middle, access, granularity, base_high) ==
    [ limit_low |-> limit_low, base_low |-> base_low, base_middle |-> base_middle,
      access |-> access, granularity |-> granularity, base_high |-> base_high ]

NullEntry == GdtEntry({}, {}, {}, {}, {}, {})

UnpackedDefault == [base |-> {}, limit |-> {}, access_rights |-> {}, selector |-> 0]

UnpackedBaseLowOnly(e) == e.base_low

UnpackedBase(e) ==
    BitOr(BitOr(Shl(e.base_high, 24, 64), Shl(e.base_middle, 16, 64)), e.base_low)

UnpackedLimit(e) ==
    BitOr(e.limit_low, Shl(BitAnd(e.granularity, LimitHighMask), 16, 64))

UnpackedAccessRightsShift4(e) ==
    LET rights == BitAnd(BitOr(e.access,
                               Shl(BitAnd(e.granularity, GranularityFlagsMask), 4, 32)),
                         AccessRightsMask)
    IN  IF GDT_ENTRY_ACCESS_PRESENT \notin e.access
        THEN BitOr(rights, {VMX_INFO_SEGMENT_UNUSABLE})
        ELSE rights

UnpackedAccessRights(e) ==
    LET rights == BitAnd(BitOr(e.access,
                               Shl(BitAnd(e.granularity, GranularityFlagsMask), 8, 32)),
                         AccessRightsMask)
    IN  IF GDT_ENTRY_ACCESS_PRESENT \notin e.access
        THEN BitOr(rights, {VMX_INFO_SEGMENT_UNUSABLE})
        ELSE rights

UnpackEntryAt(table, selector, index) ==
    IF index >= Len(table)
    THEN [ panicked |-> TRUE, reads |-> {}, entry |-> UnpackedDefault ]
    ELSE LET e == table[index + 1]
         IN  [ panicked |-> FALSE, reads |-> {index},
               entry |-> [ base |-> UnpackedBase(e),
                           limit |-> UnpackedLimit(e),
                           access_rights |-> UnpackedAccessRights(e),
                           selector |-> selector ] ]

unpack_gdt_entry_no_null_check(table, selector) ==
    UnpackEntryAt(table, selector, selector \div GDT_ENTRY_SIZE)

\* gdt[index] on a slice panics when index is not below its length; `reads` is
\* the set of slice indices the call has read.
unpack_gdt_entry(table, selector) ==
    LET index == selector \div GDT_ENTRY_SIZE
    IN  IF index = 0
        THEN [ panicked |-> FALSE, reads |-> {},
               entry |-> [UnpackedDefault EXCEPT
                            !.access_rights = {VMX_INFO_SEGMENT_UNUSABLE}] ]
        ELSE UnpackEntryAt(table, selector, index)

-----------------------------------------------------------------------------
(* PageTables::build_identity (paging.rs) *)

\* The number of entries of a Table and of PDs in PageTables: 512 in the code.
TableLen == 3

BASE_PAGE_SHIFT == 12

LARGE_PAGE_SIZE == 2097152

PRESENT_BIT == 0

WRITABLE_BIT == 1

LARGE_BIT == 7

PFN_LSB == 12

PFN_MSB == 51

PfnField == PFN_LSB..PFN_MSB

\* bitfield accessors of Entry(u64)
set_present(e) == e \cup {PRESENT_BIT}

set_writable(e) == e \cup {WRITABLE_BIT}

set_large(e) == e \cup {LARGE_BIT}

set_pfn(e, value) ==
    (e \ PfnField) \cup {b + PFN_LSB : b \in {x \in FromNat(value) : x + PFN_LSB <= PFN_MSB}}

pfn(e) == ToNat(Shr(e \cap PfnField, PFN_LSB))

PdePfnOfLargeShift(pa) == pa \div LARGE_PAGE_SIZE

PdePfn(pa) == pa \div Pow2(BASE_PAGE_SHIFT)

NextPa(pa) == pa + LARGE_PAGE_SIZE

Indices == 0..(TableLen - 1)

\* The page frame of a table of the PageTables value: the struct is repr(C), so
\* pml4, pdpt and pd[0..] follow each other one 4-KByte page apart.
TablePfn(base, table, i) ==
    CASE table = "pml4" -> base
      [] table = "pdpt" -> base + 1
      [] table = "pd" -> base + 2 + i

PageTablesIdle ==
    [ pc |-> "idle", base |-> 0, i |-> 0, j |-> 0, pa |-> 0,
      pml4 |-> [k \in Indices |-> {}],
      pdpt |-> [k \in Indices |-> {}],
      pd |-> [k \in Indices |-> [l \in Indices |-> {}]] ]

BuildIdentityPml4 ==
    /\ pt.pc = "pml4"
    /\ pt' = [pt EXCEPT
                !.pml4[0] = set_pfn(set_writable(set_present(pt.pml4[0])),
                                    TablePfn(pt.base, "pdpt", 0)),
                !.pa = 0, !.i = 0, !.j = 0,
                !.pc = "pdpte"]
    /\ UNCHANGED <<msr, msr_log, gdt, adj, unp, vx, runVars>>

BuildIdentityPdpte ==
    /\ pt.pc = "pdpte"
    /\ pt' = [pt EXCEPT
                !.pdpt[pt.i] = set_pfn(set_writable(set_present(pt.pdpt[pt.i])),
                                       TablePfn(pt.base, "pd", pt.i)),
                !.j = 0,
                !.pc = "pde"]
    /\ UNCHANGED <<msr, msr_log, gdt, adj, unp, vx, runVars>>

BuildIdentityPde ==
    /\ pt.pc = "pde"
    /\ LET last_j == pt.j = TableLen - 1
           last_i == pt.i = TableLen - 1
       IN  pt' = [pt EXCEPT
                    !.pd[pt.i][pt.j] =
                        set_pfn(set_large(set_writable(set_present(pt.pd[pt.i][pt.j]))),
                                PdePfn(pt.pa)),
                    !.pa = NextPa(pt.pa),
                    !.j = IF last_j THEN 0 ELSE pt.j + 1,
                    !.i = IF last_j /\ ~last_i THEN pt.i + 1 ELSE pt.i,
                    !.pc = IF ~last_j THEN "pde" ELSE IF last_i THEN "done" ELSE "pdpte"]
    /\ UNCHANGED <<msr, msr_log, gdt, adj, unp, vx, runVars>>

-----------------------------------------------------------------------------
(* Vmx::run: enabling VMX operation (vmx.rs) *)

VMX_LOCK_BIT == 0

VMXON_OUTSIDE_SMX == 2

CR4_ENABLE_VMX == 13

\* The flags the x86 crate's Cr0 and Cr4 types define: controlregs::cr0(),
\* cr4() and from_bits_truncate drop every other bit.
Cr0Flags == {0, 1, 2, 3, 4, 5, 16, 18, 29, 30, 31}

Cr4Flags == (0..14) \cup {16, 17, 18, 20, 21, 22}

from_bits_truncate(flags, bits) == bits \cap flags

\* The physical addresses MmGetPhysicalAddress gives for the two regions; 0
\* when the translation fails.
VmxonRegionPa == 4096

VmcsRegionPa == 8192

VmxIdle ==
    [ vmxon_revision_id |-> {}, vmxon_region_physical_address |-> 0,
      vmcs_revision_id |-> {}, vmcs_region_physical_address |-> 0,
      launched |-> FALSE,
      host_gdt |-> [ gdt |-> <<>>, gdtr_limit |-> 0,
                     cs |-> 0, ss |-> 0, ds |-> 0, es |-> 0, fs |-> 0, gs |-> 0,
                     tr |-> 0 ],
      context |-> [ seg_cs |-> 0, seg_ss |-> 0, seg_ds |-> 0, seg_es |-> 0,
                    seg_fs |-> 0, seg_gs |-> 0,
                    rip |-> {}, rsp |-> {}, e_flags |-> {}, dr7 |-> {},
                    gprs |-> "default" ],
      registers |-> [ gprs |-> "default", rip |-> {}, rsp |-> {}, rflags |-> {} ] ]

SegIdle ==
    [cs |-> 0, ss |-> 0, ds |-> 0, es |-> 0, fs |-> 0, gs |-> 0, ldtr |-> 0, tr |-> 0]

VmxCpuOff == [root |-> FALSE, vmcs |-> "Inactive"]

\* CPUID: the vendor string of leaf 0 and the VMX bit of CPUID.1:ECX
Vendors == {"GenuineIntel", "AuthenticAMD", "CentaurHauls"}

DefaultCpu == [vendor |-> "GenuineIntel", has_vmx |-> TRUE, entry_cr4 |-> {}]

\* has_intel_cpu and has_vmx_support: nothing in Vmx::new or Vmx::run calls them
has_intel_cpu(vendor) == IF vendor = "GenuineIntel" THEN "Ok" ELSE "CPUUnsupported"

has_vmx_support(has_vmx) == IF has_vmx THEN "Ok" ELSE "VMXUnsupported"

LaunchIdle ==
    [ called |-> FALSE, flags |-> {}, vm_instruction_error |-> 0,
      result |-> "none", carried |-> 0 ]

\* no exit pending: vmexit_handler not called, nothing read or written
VmExitIdle ==
    [ pc |-> "idle", entry |-> "none",
      registers_null |-> FALSE, overflow_checks |-> FALSE,
      exit_reason |-> {}, vm_instruction_error |-> 0,
      guest_rip |-> {}, rip_at_exit |-> {}, instruction_len |-> {},
      interruption_info |-> {}, interruption_error_code |-> {},
      hook_manager |-> {},
      registers |-> [rax |-> "guest", rbx |-> "guest", rcx |-> "guest",
                     rdx |-> "guest", rip |-> {}],
      vmreads |-> <<>>, vmwrites |-> <<>>, handler |-> "none",
      result |-> "none", returned |-> "none" ]

RunIdle ==
    /\ cpu = DefaultCpu
    /\ launch = LaunchIdle
    /\ cr0 = {}
    /\ cr4 = {}
    /\ seg = SegIdle
    /\ vmxcpu = VmxCpuOff
    /\ vmcs = <<>>
    /\ vmx_log = <<>>
    /\ vmx = VmxIdle
    /\ pc = "idle"
    /\ outcome = "none"

pureVars == <<adj, unp, pt, vx>>

set_vmxe_to_false(control4) == control4 \ {CR4_ENABLE_VMX}

\* cr4.set(Cr4::CR4_ENABLE_VMX, true)
set_vmxe(control4) == control4 \cup {CR4_ENABLE_VMX}

\* enable_vmx_operation, lines 413-415: set CR4.VMXE.  On a CPU without VMX
\* the bit is reserved and the write of CR4 raises #GP.
EnableVmxOperation ==
    /\ pc = "enable_vmx_operation"
    /\ IF cpu.has_vmx
       THEN /\ cr4' = set_vmxe(from_bits_truncate(Cr4Flags, cr4))
            /\ pc' = "set_lock_bit"
            /\ UNCHANGED outcome
       ELSE /\ pc' = "faulted"
            /\ outcome' = "general_protection"
            /\ UNCHANGED cr4
    /\ UNCHANGED <<msr, msr_log, gdt, cr0, seg, vmxcpu, vmcs, vmx_log, vmx,
                   cpu, launch, pureVars>>

set_lock_bit_lock_only(ia32_feature_control) ==
    IF VMX_LOCK_BIT \notin ia32_feature_control
    THEN [ write |-> TRUE, value |-> {VMX_LOCK_BIT} \cup ia32_feature_control,
           result |-> "Ok" ]
    ELSE IF VMXON_OUTSIDE_SMX \notin ia32_feature_control
    THEN [ write |-> FALSE, value |-> {}, result |-> "VMXBIOSLock" ]
    ELSE [ write |-> FALSE, value |-> {}, result |-> "Ok" ]

set_lock_bit(ia32_feature_control) ==
    IF VMX_LOCK_BIT \notin ia32_feature_control
    THEN [ write |-> TRUE,
           value |-> {VMXON_OUTSIDE_SMX, VMX_LOCK_BIT} \cup ia32_feature_control,
           result |-> "Ok" ]
    ELSE IF VMXON_OUTSIDE_SMX \notin ia32_feature_control
    THEN [ write |-> FALSE, value |-> {}, result |-> "VMXBIOSLock" ]
    ELSE [ write |-> FALSE, value |-> {}, result |-> "Ok" ]

SetLockBit ==
    /\ pc = "set_lock_bit"
    /\ LET r == set_lock_bit(msr["IA32_FEATURE_CONTROL"])
       IN  /\ msr' = IF r.write THEN [msr EXCEPT !["IA32_FEATURE_CONTROL"] = r.value]
                     ELSE msr
           /\ msr_log' = msr_log \o <<RdMsr("IA32_FEATURE_CONTROL")>>
                           \o (IF r.write THEN <<WrMsr("IA32_FEATURE_CONTROL")>> ELSE <<>>)
           /\ pc' = IF r.result = "Ok" THEN "set_cr0_bits" ELSE "returned"
           /\ outcome' = IF r.result = "Ok" THEN outcome ELSE r.result
    /\ UNCHANGED <<gdt, cr0, cr4, seg, vmxcpu, vmcs, vmx_log, vmx, cpu, launch, pureVars>>

set_cr_bits_and_first(flags, cr, fixed0, fixed1) ==
    BitOr(BitAnd(from_bits_truncate(flags, cr), from_bits_truncate(flags, fixed1)),
          from_bits_truncate(flags, fixed0))

\* set_cr0_bits and set_cr4_bits: cr |= fixed0; cr &= fixed1, on the flag types
set_cr_bits(flags, cr, fixed0, fixed1) ==
    BitAnd(BitOr(from_bits_truncate(flags, cr), from_bits_truncate(flags, fixed0)),
           from_bits_truncate(flags, fixed1))

SetCr0Bits ==
    /\ pc = "set_cr0_bits"
    /\ cr0' = set_cr_bits(Cr0Flags, cr0, msr["IA32_VMX_CR0_FIXED0"],
                          msr["IA32_VMX_CR0_FIXED1"])
    /\ msr_log' = msr_log \o <<RdMsr("IA32_VMX_CR0_FIXED0"), RdMsr("IA32_VMX_CR0_FIXED1")>>
    /\ pc' = "set_cr4_bits"
    /\ UNCHANGED <<msr, gdt, cr4, seg, vmxcpu, vmcs, vmx_log, vmx, outcome,
                   cpu, launch, pureVars>>

SetCr4Bits ==
    /\ pc = "set_cr4_bits"
    /\ cr4' = set_cr_bits(Cr4Flags, cr4, msr["IA32_VMX_CR4_FIXED0"],
                          msr["IA32_VMX_CR4_FIXED1"])
    /\ msr_log' = msr_log \o <<RdMsr("IA32_VMX_CR4_FIXED0"), RdMsr("IA32_VMX_CR4_FIXED1")>>
    /\ pc' = "init_vmxon_region"
    /\ UNCHANGED <<msr, gdt, cr0, seg, vmxcpu, vmcs, vmx_log, vmx, outcome,
                   cpu, launch, pureVars>>

RevisionIdMask == 0..30

get_vmcs_revision_id_high_half(vmx_basic) ==
    BitAnd(AsU32(Shr(vmx_basic, 32)), RevisionIdMask)

get_vmcs_revision_id(vmx_basic) == BitAnd(AsU32(vmx_basic), RevisionIdMask)

\* revision_id.set_bit(31, false)
clear_bit_31(word) == word \ {31}

\* init_vmxon_region: vmxon(..).unwrap() panics when the instruction fails
InitVmxonRegion ==
    /\ pc = "init_vmxon_region"
    /\ \E pa \in {0, VmxonRegionPa}, vmxon_ok \in BOOLEAN :
        /\ pa = 0 => vmxon_ok
        /\ IF pa = 0
           THEN /\ vmx' = [vmx EXCEPT !.vmxon_region_physical_address = pa]
                /\ pc' = "returned"
                /\ outcome' = "VirtualToPhysicalAddressFailed"
                /\ UNCHANGED <<msr_log, vmxcpu, vmx_log>>
           ELSE /\ vmx' = [vmx EXCEPT
                             !.vmxon_region_physical_address = pa,
                             !.vmxon_revision_id =
                                 clear_bit_31(get_vmcs_revision_id(msr["IA32_VMX_BASIC"]))]
                /\ msr_log' = msr_log \o <<RdMsr("IA32_VMX_BASIC")>>
                /\ vmx_log' = Append(vmx_log, "vmxon")
                /\ vmxcpu' = IF vmxon_ok THEN [vmxcpu EXCEPT !.root = TRUE] ELSE vmxcpu
                /\ pc' = IF vmxon_ok THEN "init_vmcs_region" ELSE "panicked"
                /\ outcome' = IF vmxon_ok THEN outcome ELSE "panic"
    /\ UNCHANGED <<msr, gdt, cr0, cr4, seg, vmcs, cpu, launch, pureVars>>

VmcsRegionInstructionsPtrldFirst(fails) ==
    IF fails = "vmptrld" THEN <<"vmptrld">> ELSE <<"vmptrld", "vmclear">>

\* the VMX instructions init_vmcs_region issues: vmclear, then, unless vmclear
\* failed, vmptrld
VmcsRegionInstructions(fails) ==
    IF fails = "vmclear" THEN <<"vmclear">> ELSE <<"vmclear", "vmptrld">>

\* init_vmcs_region: vmclear and vmptrld unwrap their results as well
InitVmcsRegion ==
    /\ pc = "init_vmcs_region"
    /\ \E pa \in {0, VmcsRegionPa}, fails \in {"none", "vmclear", "vmptrld"} :
        /\ pa = 0 => fails = "none"
        /\ IF pa = 0
           THEN /\ vmx' = [vmx EXCEPT !.vmcs_region_physical_address = pa]
                /\ pc' = "returned"
                /\ outcome' = "VirtualToPhysicalAddressFailed"
                /\ UNCHANGED <<msr_log, vmxcpu, vmx_log>>
           ELSE /\ vmx' = [vmx EXCEPT
                             !.vmcs_region_physical_address = pa,
                             !.vmcs_revision_id =
                                 clear_bit_31(get_vmcs_revision_id(msr["IA32_VMX_BASIC"]))]
                /\ msr_log' = msr_log \o <<RdMsr("IA32_VMX_BASIC")>>
                /\ vmx_log' = vmx_log \o VmcsRegionInstructions(fails)
                /\ vmxcpu' = [vmxcpu EXCEPT
                                !.vmcs = CASE fails = "vmclear" -> vmxcpu.vmcs
                                           [] fails = "vmptrld" -> "Clear"
                                           [] OTHER -> "Current"]
                /\ pc' = IF fails = "none" THEN "init_guest_register_state" ELSE "panicked"
                /\ outcome' = IF fails = "none" THEN outcome ELSE "panic"
    /\ UNCHANGED <<msr, gdt, cr0, cr4, seg, vmcs, cpu, launch, pureVars>>

-----------------------------------------------------------------------------
(* Vmx::run: populating the VMCS and launching (vmx.rs) *)

\* What the registers the model does not follow hold: CR3, the GDTR and IDTR
\* bases, the IDTR limit, and the addresses of the host TSS and host GDT.
Cr3Value == {12, 13, 28}

GdtrBase == {12, 16, 47}

IdtrBase == {12, 17, 47}

IdtrLimit == 0..11

HostTssAddress == {4, 13, 47}

HostGdtAddress == {5, 14, 47}

U16_MAX == 65535

\* sgdt: the limit of a GDT of n 8-byte entries
GdtrLimit(table) == GDT_ENTRY_SIZE * Len(table) - 1

\* One step of a VMCS-populating function: a vmwrite of a value (`panicked`
\* when computing the value panics, so that the write is never made), or a
\* rdmsr.
VmWrite(field, value) ==
    [kind |-> "vmwrite", name |-> field, panicked |-> FALSE, value |-> value]

VmWriteUnpacked(field, r, part) ==
    [kind |-> "vmwrite", name |-> field, panicked |-> r.panicked, value |-> r.entry[part]]

MsrRead(name) == [kind |-> "rdmsr", name |-> name, panicked |-> FALSE, value |-> {}]

VmWriteMsr(msrs, field, name) == <<MsrRead(name), VmWrite(field, msrs[name])>>

Panics(effects) == \E k \in DOMAIN effects : effects[k].panicked

\* the effects that happen: those before the first panic
Executed(effects) ==
    IF Panics(effects)
    THEN SubSeq(effects, 1,
                (CHOOSE k \in DOMAIN effects :
                    effects[k].panicked /\ \A l \in 1..(k - 1) : ~effects[l].panicked) - 1)
    ELSE effects

\* the VMCS after the vmwrites among the effects, the last write of a field
\* standing
ApplyVmWrites(fields, effects) ==
    LET writes == {k \in DOMAIN effects : effects[k].kind = "vmwrite"}
        names == {effects[k].name : k \in writes}
        last(f) == CHOOSE k \in writes :
                      /\ effects[k].name = f
                      /\ \A l \in writes : effects[l].name = f => l <= k
    IN  [f \in DOMAIN fields \cup names |->
            IF f \in names THEN effects[last(f)].value ELSE fields[f]]

IsMsrRead(e) == e.kind = "rdmsr"

\* the rdmsr log entries of the effects, in order
MsrReads(effects) ==
    LET reads == SelectSeq(effects, IsMsrRead)
    IN  [k \in DOMAIN reads |-> RdMsr(reads[k].name)]

GuestSegments == <<"CS", "SS", "DS", "ES", "FS", "GS", "LDTR", "TR">>

\* the selector init_guest_register_state unpacks for a guest segment
GuestSelector(context, sregs, name) ==
    CASE name = "CS" -> context.seg_cs
      [] name = "SS" -> context.seg_ss
      [] name = "DS" -> context.seg_ds
      [] name = "ES" -> context.seg_es
      [] name = "FS" -> context.seg_fs
      [] name = "GS" -> context.seg_gs
      [] name = "LDTR" -> sregs.ldtr
      [] name = "TR" -> sregs.tr

GuestFieldName(name, part) == "GUEST_" \o name \o "_" \o part

GuestUnpackedWrites(table, context, sregs, names, field, part) ==
    [k \in DOMAIN names |->
        VmWriteUnpacked(GuestFieldName(names[k], field),
                        unpack_gdt_entry(table, GuestSelector(context, sregs, names[k])),
                        part)]

GuestStateEffects(msrs, table, control0, control4, context, sregs) ==
    <<VmWrite("GUEST_CR0", from_bits_truncate(Cr0Flags, control0)),
      VmWrite("GUEST_CR3", Cr3Value),
      VmWrite("GUEST_CR4", from_bits_truncate(Cr4Flags, control4)),
      VmWrite("GUEST_DR7", context.dr7),
      VmWrite("GUEST_RSP", context.rsp),
      VmWrite("GUEST_RIP", context.rip),
      VmWrite("GUEST_RFLAGS", context.e_flags)>>
    \o [k \in DOMAIN GuestSegments |->
          VmWrite(GuestFieldName(GuestSegments[k], "SELECTOR"),
                  FromNat(GuestSelector(context, sregs, GuestSegments[k])))]
    \o GuestUnpackedWrites(table, context, sregs, <<"CS", "SS", "DS", "ES">>, "BASE", "base")
    \o VmWriteMsr(msrs, "GUEST_FS_BASE", "IA32_FS_BASE")
    \o VmWriteMsr(msrs, "GUEST_GS_BASE", "IA32_GS_BASE")
    \o GuestUnpackedWrites(table, context, sregs, <<"LDTR", "TR">>, "BASE", "base")
    \o GuestUnpackedWrites(table, context, sregs, GuestSegments, "LIMIT", "limit")
    \o GuestUnpackedWrites(table, context, sregs, GuestSegments, "ACCESS_RIGHTS",
                           "access_rights")
    \o <<VmWrite("GUEST_GDTR_BASE", GdtrBase),
         VmWrite("GUEST_IDTR_BASE", IdtrBase),
         VmWrite("GUEST_GDTR_LIMIT", FromNat(GdtrLimit(table))),
         VmWrite("GUEST_IDTR_LIMIT", IdtrLimit)>>
    \o VmWriteMsr(msrs, "GUEST_IA32_DEBUGCTL_FULL", "IA32_DEBUGCTL")
    \o VmWriteMsr(msrs, "GUEST_IA32_SYSENTER_CS", "IA32_SYSENTER_CS")
    \o VmWriteMsr(msrs, "GUEST_IA32_SYSENTER_ESP", "IA32_SYSENTER_ESP")
    \o VmWriteMsr(msrs, "GUEST_IA32_SYSENTER_EIP", "IA32_SYSENTER_EIP")
    \o <<VmWrite("GUEST_LINK_PTR_FULL", U64Bits)>>

InitGuestRegisterState ==
    /\ pc = "init_guest_register_state"
    /\ LET effects == GuestStateEffects(msr, gdt, cr0, cr4, vmx.context, seg)
           done == Executed(effects)
       IN  /\ vmcs' = ApplyVmWrites(vmcs, done)
           /\ msr_log' = msr_log \o MsrReads(done)
           /\ vmx_log' = Append(vmx_log, "vmwrite_guest")
           /\ IF Panics(effects)
              THEN /\ pc' = "panicked"
                   /\ outcome' = "panic"
                   /\ UNCHANGED vmx
              ELSE /\ pc' = "init_host_register_state"
                   /\ vmx' = [vmx EXCEPT !.registers.gprs = vmx.context.gprs]
                   /\ UNCHANGED outcome
    /\ UNCHANGED <<msr, gdt, cr0, cr4, seg, vmxcpu, cpu, launch, pureVars>>

\* task_segment_descriptor: a present, DPL 0, available 64-bit TSS of 104
\* bytes at the address of HostGdt.tss
TssDescriptor ==
    GdtEntry(FromNat(103), HostTssAddress \cap (0..15),
             Shr(HostTssAddress \cap (16..23), 16), {0, 3, 7}, {},
             Shr(HostTssAddress \cap (24..31), 24))

\* SegmentSelector::new(index, Ring0): index << 3 | rpl, in 16 bits
SegmentSelectorNew(index, rpl) == ((index * GDT_ENTRY_SIZE) % (U16_MAX + 1)) + rpl

\* HostGdt::initialize_from_current.  current_gdtr.limit + 1 is a u16 addition:
\* at a limit of 0xFFFF it panics when the build checks overflow and wraps to
\* 0 when it does not.
initialize_from_current(table, sregs, overflow_checks) ==
    LET limit == GdtrLimit(table)
        overflows == limit + 1 > U16_MAX
        count == ((limit + 1) % (U16_MAX + 1)) \div GDT_ENTRY_SIZE
        cloned == Append(SubSeq(table, 1, count), TssDescriptor)
        new_limit == Len(cloned) * GDT_ENTRY_SIZE - 1
        tr_index == Len(cloned) - 1
    IN  IF (overflows /\ overflow_checks) \/ new_limit > U16_MAX
        THEN [ panicked |-> TRUE, host_gdt |-> VmxIdle.host_gdt ]
        ELSE [ panicked |-> FALSE,
               host_gdt |-> [ gdt |-> cloned, gdtr_limit |-> new_limit,
                              tr |-> SegmentSelectorNew(tr_index, 0),
                              cs |-> sregs.cs, ss |-> sregs.ss, ds |-> sregs.ds,
                              es |-> sregs.es, fs |-> sregs.fs, gs |-> sregs.gs ] ]

\* const SELECTOR_MASK: u16 = 0xF8
SELECTOR_MASK == 3..7

HostSelectorUnmasked(selector) == FromNat(selector)

HostSelector(selector) == BitAnd(FromNat(selector), SELECTOR_MASK)

HostStateEffects(msrs, control0, control4, host_gdt) ==
    <<VmWrite("HOST_CR0", from_bits_truncate(Cr0Flags, control0)),
      VmWrite("HOST_CR3", Cr3Value),
      VmWrite("HOST_CR4", from_bits_truncate(Cr4Flags, control4)),
      VmWrite("HOST_CS_SELECTOR", HostSelector(host_gdt.cs)),
      VmWrite("HOST_SS_SELECTOR", HostSelector(host_gdt.ss)),
      VmWrite("HOST_DS_SELECTOR", HostSelector(host_gdt.ds)),
      VmWrite("HOST_ES_SELECTOR", HostSelector(host_gdt.es)),
      VmWrite("HOST_FS_SELECTOR", HostSelector(host_gdt.fs)),
      VmWrite("HOST_GS_SELECTOR", HostSelector(host_gdt.gs)),
      VmWrite("HOST_TR_SELECTOR", HostSelector(host_gdt.tr))>>
    \o VmWriteMsr(msrs, "HOST_FS_BASE", "IA32_FS_BASE")
    \o VmWriteMsr(msrs, "HOST_GS_BASE", "IA32_GS_BASE")
    \o <<VmWrite("HOST_TR_BASE", HostTssAddress),
         VmWrite("HOST_GDTR_BASE", HostGdtAddress),
         VmWrite("HOST_IDTR_BASE", IdtrBase)>>
    \o VmWriteMsr(msrs, "HOST_IA32_SYSENTER_CS", "IA32_SYSENTER_CS")
    \o VmWriteMsr(msrs, "HOST_IA32_SYSENTER_ESP", "IA32_SYSENTER_ESP")
    \o VmWriteMsr(msrs, "HOST_IA32_SYSENTER_EIP", "IA32_SYSENTER_EIP")

InitHostRegisterState ==
    /\ pc = "init_host_register_state"
    /\ \E overflow_checks \in BOOLEAN :
        /\ GdtrLimit(gdt) + 1 <= U16_MAX => overflow_checks
        /\ LET r == initialize_from_current(gdt, seg, overflow_checks)
               effects == HostStateEffects(msr, cr0, cr4, r.host_gdt)
           IN  IF r.panicked
               THEN /\ pc' = "panicked"
                    /\ outcome' = "panic"
                    /\ UNCHANGED <<vmx, vmcs, msr_log, vmx_log>>
               ELSE /\ vmx' = [vmx EXCEPT !.host_gdt = r.host_gdt]
                    /\ vmcs' = ApplyVmWrites(vmcs, effects)
                    /\ msr_log' = msr_log \o MsrReads(effects)
                    /\ vmx_log' = Append(vmx_log, "vmwrite_host")
                    /\ pc' = "init_vmcs_control_values"
                    /\ UNCHANGED outcome
    /\ UNCHANGED <<msr, gdt, cr0, cr4, seg, vmxcpu, cpu, launch, pureVars>>

\* the requested values of init_vmcs_control_values
PRIMARY_CTL == {31}

SECONDARY_CTL == {3, 12, 20}

ENTRY_CTL == {9}

EXIT_CTL == {9}

PINBASED_CTL == {}

AdjustedWrite(msrs, field, control, requested) ==
    LET r == adjust_vmx_controls(msrs, control, requested)
    IN  <<MsrRead("IA32_VMX_BASIC"), MsrRead(r.cap_msr),
          [kind |-> "vmwrite", name |-> field, panicked |-> r.panicked, value |-> r.value]>>

ControlEffects(msrs, control0, control4) ==
    AdjustedWrite(msrs, "PRIMARY_PROCBASED_EXEC_CONTROLS", "ProcessorBased", PRIMARY_CTL)
    \o AdjustedWrite(msrs, "SECONDARY_PROCBASED_EXEC_CONTROLS", "ProcessorBased2",
                     SECONDARY_CTL)
    \o AdjustedWrite(msrs, "VMENTRY_CONTROLS", "VmEntry", ENTRY_CTL)
    \o AdjustedWrite(msrs, "VMEXIT_CONTROLS", "VmExit", EXIT_CTL)
    \o AdjustedWrite(msrs, "PINBASED_EXEC_CONTROLS", "PinBased", PINBASED_CTL)
    \o <<VmWrite("CR0_READ_SHADOW", from_bits_truncate(Cr0Flags, control0)),
         VmWrite("CR4_READ_SHADOW", from_bits_truncate(Cr4Flags, control4))>>

InitVmcsControlValues ==
    /\ pc = "init_vmcs_control_values"
    /\ LET effects == ControlEffects(msr, cr0, cr4)
           done == Executed(effects)
       IN  /\ vmcs' = ApplyVmWrites(vmcs, done)
           /\ msr_log' = msr_log \o MsrReads(done)
           /\ vmx_log' = Append(vmx_log, "vmwrite_control")
           /\ pc' = IF Panics(effects) THEN "panicked" ELSE "launch_vm"
           /\ outcome' = IF Panics(effects) THEN "panic" ELSE outcome
    /\ UNCHANGED <<msr, gdt, cr0, cr4, seg, vmxcpu, vmx, cpu, launch, pureVars>>

FLAGS_CF == 0

FLAGS_ZF == 6

vm_succeed_cf_first(flags, vm_instruction_error) ==
    IF FLAGS_CF \in flags THEN [result |-> "VmFailInvalid", carried |-> 0]
    ELSE IF FLAGS_ZF \in flags
    THEN [result |-> "VmFailValid", carried |-> vm_instruction_error]
    ELSE [result |-> "Ok", carried |-> 0]

\* vm_succeed: the Err of the ZF case carries vmread(VM_INSTRUCTION_ERROR)
vm_succeed(flags, vm_instruction_error) ==
    IF FLAGS_ZF \in flags
    THEN [result |-> "VmFailValid", carried |-> vm_instruction_error]
    ELSE IF FLAGS_CF \in flags THEN [result |-> "VmFailInvalid", carried |-> 0]
    ELSE [result |-> "Ok", carried |-> 0]

\* the RFLAGS launch_vm can return: CF, ZF and SF each set or clear
LaunchFlags == SUBSET {FLAGS_CF, FLAGS_ZF, 7}

\* what the VM_INSTRUCTION_ERROR field can hold when it is read
VmInstructionErrors == {0, 7}

\* the guest RIP the VMCS holds at the VM exit that ends launch_vm
ExitRips(context) == {context.rip, {3, 12, 47}}

HostStackTop == {3, 14, 47}

VmExitTrampoline == {6, 15, 47}

\* launch_vm: before VMLAUNCH the launch code points the host RSP and RIP
\* fields at its stack and at the code that takes the VM exit
LaunchHostWrites ==
    <<VmWrite("HOST_RSP", HostStackTop), VmWrite("HOST_RIP", VmExitTrampoline)>>

\* run, lines 105-126: launch_vm, vm_succeed(..).expect(..), then the guest
\* RIP, RSP and RFLAGS are read back from the VMCS
LaunchVm ==
    /\ pc = "launch_vm"
    /\ \E flags \in LaunchFlags, error \in VmInstructionErrors, rip \in ExitRips(vmx.context) :
        LET r == vm_succeed(flags, error)
            written == ApplyVmWrites(vmcs, LaunchHostWrites)
        IN  /\ (flags \cap {FLAGS_CF, FLAGS_ZF}) # {} => rip = vmx.context.rip
            /\ FLAGS_ZF \notin flags => error = 0
            /\ vmx_log' = Append(vmx_log, "vmlaunch")
            /\ launch' = [ called |-> TRUE, flags |-> flags, vm_instruction_error |-> error,
                           result |-> r.result, carried |-> r.carried ]
            /\ IF r.result = "Ok"
               THEN /\ vmcs' = [written EXCEPT !["GUEST_RIP"] = rip]
                    /\ vmxcpu' = [vmxcpu EXCEPT !.vmcs = "Launched"]
                    /\ vmx' = [vmx EXCEPT !.launched = TRUE,
                                          !.registers.rip = rip,
                                          !.registers.rsp = vmcs["GUEST_RSP"],
                                          !.registers.rflags = vmcs["GUEST_RFLAGS"]]
                    /\ pc' = "returned"
                    /\ outcome' = "Ok"
               ELSE /\ vmcs' = written
                    /\ pc' = "panicked"
                    /\ outcome' = "panic"
                    /\ UNCHANGED <<vmxcpu, vmx>>
    /\ UNCHANGED <<msr, msr_log, gdt, cr0, cr4, seg, cpu, pureVars>>

-----------------------------------------------------------------------------
(* Specifications of the pure functions *)

(* The inputs of the adjuster's specification: bit 0 and bit 31 of each     *)
(* 32-bit half cover every combination of (requested, allowed0, allowed1)  *)
(* at two positions; bits 32 and 63 of the request are values beyond u32.   *)
RequestedValues == SUBSET {0, 31, 32, 63}

CapValues == SUBSET {0, 31, 32, 63}

AdjustBasicValues == {{}, {55}, U64Bits \ {55}, U64Bits}

OtherCapValue == {0, 32}

TrueVariant(control) ==
    CASE control = "PinBased" -> "IA32_VMX_TRUE_PINBASED_CTLS"
      [] control = "ProcessorBased" -> "IA32_VMX_TRUE_PROCBASED_CTLS"
      [] control = "VmExit" -> "IA32_VMX_TRUE_EXIT_CTLS"
      [] control = "VmEntry" -> "IA32_VMX_TRUE_ENTRY_CTLS"
      [] OTHER -> "IA32_VMX_PROCBASED_CTLS2"

PlainVariant(control) ==
    CASE control = "PinBased" -> "IA32_VMX_PINBASED_CTLS"
      [] control = "ProcessorBased" -> "IA32_VMX_PROCBASED_CTLS"
      [] control = "VmExit" -> "IA32_VMX_EXIT_CTLS"
      [] control = "VmEntry" -> "IA32_VMX_ENTRY_CTLS"
      [] OTHER -> "IA32_VMX_PROCBASED_CTLS2"

AdjustMsrFile(control, basic, t, p) ==
    [m \in MsrNames |->
        IF m = "IA32_VMX_BASIC" THEN basic
        ELSE IF m = TrueVariant(control) THEN t
        ELSE IF m = PlainVariant(control) THEN p
        ELSE IF m \in CapMsrs THEN OtherCapValue
        ELSE {}]

AdjustIdle ==
    [ called |-> FALSE, control |-> "PinBased", requested |-> {},
      panicked |-> FALSE, cap_msr |-> "none", value |-> {} ]

UnpackIdle ==
    [ called |-> FALSE, selector |-> 0, panicked |-> FALSE, reads |-> {},
      entry |-> UnpackedDefault ]

InitAdjust ==
    /\ RunIdle
    /\ vx = VmExitIdle
    /\ gdt = <<>>
    /\ unp = UnpackIdle
    /\ pt = PageTablesIdle
    /\ \E control \in VmxControl, requested \in RequestedValues,
          basic \in AdjustBasicValues, t \in CapValues, p \in CapValues :
        /\ msr = AdjustMsrFile(control, basic, t, p)
        /\ adj = [AdjustIdle EXCEPT !.control = control, !.requested = requested]
    /\ msr_log = <<>>

AdjustVmxControls ==
    /\ ~adj.called
    /\ LET r == adjust_vmx_controls(msr, adj.control, adj.requested)
       IN  /\ adj' = [adj EXCEPT !.called = TRUE, !.panicked = r.panicked,
                                 !.cap_msr = r.cap_msr, !.value = r.value]
           /\ msr_log' = msr_log \o r.reads
    /\ UNCHANGED <<msr, gdt, unp, pt, vx, runVars>>

NextAdjust == AdjustVmxControls

SpecAdjust == InitAdjust /\ [][NextAdjust]_vars

(* The GDTs of the unpacker's specification: every sequence of at most     *)
(* MaxGdtLen entries over GdtEntryPool, and every selector that indexes    *)
(* into it or one entry past it, with every RPL/TI value.                   *)
MaxGdtLen == 3

GdtEntryPool ==
    { NullEntry,
      GdtEntry(0..15, 0..15, 0..7, 0..7, 0..7, 0..7),
      GdtEntry(0..15, {}, {}, {0, 1, 3, 4, 7}, {0, 1, 2, 3, 5, 7}, {}),
      GdtEntry({0}, {15}, {0}, {1, 4}, {4}, {7}),
      GdtEntry({0, 1, 2, 5, 6}, {12, 13}, {1, 4}, {0, 1, 3, 7}, {}, {1, 2, 3, 4, 5, 6, 7}),
      GdtEntry({3}, {0}, {7}, {0, 1, 2, 3, 4, 5, 6}, {3, 6}, {0}) }

RECURSIVE SeqsUpTo(_, _)
SeqsUpTo(S, n) ==
    IF n = 0 THEN {<<>>}
    ELSE LET shorter == SeqsUpTo(S, n - 1)
         IN  shorter \cup {Append(q, x) : q \in {r \in shorter : Len(r) = n - 1}, x \in S}

InitGdt ==
    /\ RunIdle
    /\ vx = VmExitIdle
    /\ msr = [m \in MsrNames |-> {}]
    /\ msr_log = <<>>
    /\ adj = AdjustIdle
    /\ pt = PageTablesIdle
    /\ gdt \in SeqsUpTo(GdtEntryPool, MaxGdtLen)
    /\ \E selector \in 0..(GDT_ENTRY_SIZE * (MaxGdtLen + 1) - 1) :
        unp = [UnpackIdle EXCEPT !.selector = selector]

UnpackGdtEntry ==
    /\ ~unp.called
    /\ LET r == unpack_gdt_entry(gdt, unp.selector)
       IN  unp' = [unp EXCEPT !.called = TRUE, !.panicked = r.panicked,
                              !.reads = r.reads, !.entry = r.entry]
    /\ UNCHANGED <<msr, msr_log, gdt, adj, pt, vx, runVars>>

NextGdt == UnpackGdtEntry

SpecGdt == InitGdt /\ [][NextGdt]_vars


(* The PageTables values build_identity starts from: the memory is whatever *)
(* the allocation left in it, here one of EntryFills per table.             *)
EntryFills == {{}, U64Bits, {1, 12, 13, 40, 52, 63}}

TableBases == {4, 256}

InitPaging ==
    /\ RunIdle
    /\ vx = VmExitIdle
    /\ msr = [m \in MsrNames |-> {}]
    /\ msr_log = <<>>
    /\ gdt = <<>>
    /\ adj = AdjustIdle
    /\ unp = UnpackIdle
    /\ \E base \in TableBases, f4 \in EntryFills, f3 \in EntryFills,
          f2 \in [Indices -> EntryFills] :
        pt = [PageTablesIdle EXCEPT
                !.pc = "pml4", !.base = base,
                !.pml4 = [k \in Indices |-> f4],
                !.pdpt = [k \in Indices |-> f3],
                !.pd = [k \in Indices |-> [l \in Indices |-> f2[k]]]]

NextPaging == BuildIdentityPml4 \/ BuildIdentityPdpte \/ BuildIdentityPde

SpecPaging == InitPaging /\ [][NextPaging]_vars

-----------------------------------------------------------------------------
(* Specification of Vmx::run *)

\* The GDT lengths run is started with range over 1..MaxHostGdtLen, and over
\* GDT_MAX_ENTRIES, the largest GDT a 16-bit limit allows.
MaxHostGdtLen == 33

GDT_MAX_ENTRIES == (U16_MAX + 1) \div GDT_ENTRY_SIZE

PatternEntries ==
    << GdtEntry(0..15, {}, {}, {0, 1, 3, 4, 7}, {0, 1, 2, 3, 5, 7}, {}),
       GdtEntry(0..15, {}, {}, {1, 4, 7}, {0, 1, 2, 3, 6, 7}, {}),
       GdtEntry({0, 1, 2, 5, 6}, {12, 13}, {1, 4}, {0, 1, 3, 7}, {}, {1, 2, 3, 4, 5, 6, 7}),
       GdtEntry({0}, {15}, {0}, {1, 4}, {4}, {7}) >>

\* a GDT of n entries: the null descriptor, then code, data, TSS and
\* not-present descriptors in turn
GdtOfLen(n) ==
    [k \in 1..n |-> IF k = 1 THEN NullEntry
                    ELSE PatternEntries[((k - 2) % Len(PatternEntries)) + 1]]

DefaultMsr ==
    [m \in MsrNames |->
        CASE m = "IA32_VMX_BASIC" -> {0, 2, 55}
          [] m = "IA32_FEATURE_CONTROL" -> {}
          [] m = "IA32_VMX_CR0_FIXED0" -> {0, 5, 31}
          [] m = "IA32_VMX_CR0_FIXED1" -> U32Bits
          [] m = "IA32_VMX_CR4_FIXED0" -> {13}
          [] m = "IA32_VMX_CR4_FIXED1" -> Cr4Flags
          [] m \in {"IA32_VMX_PROCBASED_CTLS", "IA32_VMX_PINBASED_CTLS",
                    "IA32_VMX_EXIT_CTLS", "IA32_VMX_ENTRY_CTLS"} -> {1, 2, 33, 34, 41, 63}
          [] m = "IA32_VMX_PROCBASED_CTLS2" -> {35, 44, 52}
          [] m \in CapMsrs -> {1, 33, 34, 41, 63}
          [] m = "IA32_FS_BASE" -> {}
          [] m = "IA32_GS_BASE" -> {12, 40, 47}
          [] m = "IA32_DEBUGCTL" -> {}
          [] m = "IA32_SYSENTER_CS" -> {4}
          [] m = "IA32_SYSENTER_ESP" -> {12, 41, 47}
          [] m = "IA32_SYSENTER_EIP" -> {12, 42, 47}]

DefaultSeg ==
    [cs |-> 8, ss |-> 16, ds |-> 19, es |-> 19, fs |-> 0, gs |-> 19, ldtr |-> 0, tr |-> 24]

DefaultHardware ==
    [ msr |-> DefaultMsr, cr0 |-> {0, 4, 5, 16, 31}, cr4 |-> {5, 7, 9, 10},
      gdt |-> GdtOfLen(4), seg |-> DefaultSeg,
      vendor |-> "GenuineIntel", has_vmx |-> TRUE ]

WithMsr(name, value) == [DefaultHardware EXCEPT !.msr[name] = value]

BasicSlice == {WithMsr("IA32_VMX_BASIC", v) : v \in SUBSET {0, 30, 31, 32, 55}}

FeatureControlSlice == {WithMsr("IA32_FEATURE_CONTROL", v) : v \in SUBSET {0, 1, 2}}

\* bit 6 of CR0 and bit 15 of CR4 are reserved: the flag types do not define them
Cr0Values == SUBSET {0, 6, 31}

Cr4Values == SUBSET {5, 13, 15}

Cr0Slice ==
    { [DefaultHardware EXCEPT !.cr0 = c, !.msr["IA32_VMX_CR0_FIXED0"] = f0,
                              !.msr["IA32_VMX_CR0_FIXED1"] = f1] :
        c \in Cr0Values, f0 \in Cr0Values, f1 \in Cr0Values }

Cr4Slice ==
    { [DefaultHardware EXCEPT !.cr4 = c, !.msr["IA32_VMX_CR4_FIXED0"] = f0,
                              !.msr["IA32_VMX_CR4_FIXED1"] = f1] :
        c \in Cr4Values, f0 \in Cr4Values, f1 \in Cr4Values }

\* CS is never the null selector; TR is 0 before the OS loads it
GdtSlice ==
    { [DefaultHardware EXCEPT
         !.gdt = GdtOfLen(n),
         !.seg = [SegIdle EXCEPT !.cs = c, !.tr = t]] :
        n \in (1..MaxHostGdtLen) \cup {GDT_MAX_ENTRIES},
        c \in {8, 16, 256},
        t \in {0, 24} }

SelectorSlice ==
    { [DefaultHardware EXCEPT !.seg = [DefaultSeg EXCEPT !.ss = ss, !.ds = ds, !.tr = t]] :
        ss \in {0, 16}, ds \in {0, 16, 19, 23, 43}, t \in {0, 24, 27} }

\* CPUs of each vendor with and without VMX
CpuSlice ==
    { [DefaultHardware EXCEPT !.vendor = v, !.has_vmx = x, !.msr["IA32_FEATURE_CONTROL"] = f] :
        v \in Vendors, x \in BOOLEAN, f \in {{}, {0}} }

HardwareInputs ==
    BasicSlice \cup FeatureControlSlice \cup Cr0Slice \cup Cr4Slice \cup GdtSlice
        \cup SelectorSlice \cup CpuSlice

ContextOf(sregs) ==
    [ seg_cs |-> sregs.cs, seg_ss |-> sregs.ss, seg_ds |-> sregs.ds,
      seg_es |-> sregs.es, seg_fs |-> sregs.fs, seg_gs |-> sregs.gs,
      rip |-> {4, 12, 47}, rsp |-> {8, 13, 47}, e_flags |-> {1, 9}, dr7 |-> {10},
      gprs |-> "captured" ]

\* Vmx::new(context): zeroed regions, no physical address yet, not launched,
\* HostGdt::default(); the context is the one captured on this CPU
Init ==
    /\ \E hw \in HardwareInputs :
        /\ msr = hw.msr
        /\ cr0 = hw.cr0
        /\ cr4 = hw.cr4
        /\ gdt = hw.gdt
        /\ seg = hw.seg
        /\ vmx = [VmxIdle EXCEPT !.context = ContextOf(hw.seg)]
        /\ cpu = [vendor |-> hw.vendor, has_vmx |-> hw.has_vmx, entry_cr4 |-> hw.cr4]
    /\ launch = LaunchIdle
    /\ vx = VmExitIdle
    /\ msr_log = <<>>
    /\ vmxcpu = VmxCpuOff
    /\ vmcs = <<>>
    /\ vmx_log = <<>>
    /\ pc = "enable_vmx_operation"
    /\ outcome = "none"
    /\ adj = AdjustIdle
    /\ unp = UnpackIdle
    /\ pt = PageTablesIdle

Next ==
    \/ EnableVmxOperation
    \/ SetLockBit
    \/ SetCr0Bits
    \/ SetCr4Bits
    \/ InitVmxonRegion
    \/ InitVmcsRegion
    \/ InitGuestRegisterState
    \/ InitHostRegisterState
    \/ InitVmcsControlValues
    \/ LaunchVm

Spec == Init /\ [][Next]_vars

-----------------------------------------------------------------------------
(* The VM-exit dispatcher: vmexit/mod.rs, and the exception handler of     *)
(* vmexit/exception.rs.  vx holds the VMCS fields the exit left, the        *)
(* GuestRegisters image, and what the handler read, wrote and returned.     *)

MaxInstructionLen == 3

xor3(x, y, z) == (x # y) # z

\* the carry into bit i of a + b: some lower bit generates a carry and every
\* bit between propagates it
Carry(a, b, i) ==
    \E j \in 0..(i - 1) :
        /\ j \in a
        /\ j \in b
        /\ \A k \in (j + 1)..(i - 1) : k \in a \/ k \in b

\* u64 addition: the sum modulo 2^64, and whether it overflowed
wrapping_add(a, b) == {i \in U64Bits : xor3(i \in a, i \in b, Carry(a, b, i))}

overflows(a, b) == Carry(a, b, 64)

EXIT_REASON_EXCEPTION == 0

EXIT_REASON_CPUID == 10

EXIT_REASON_RDMSR == 31

EXIT_REASON_WRMSR == 32

\* the basic exit reasons VmxBasicExitReason classifies
VmxBasicExitReasonNumbers == (0..69) \ {35, 38, 42}

\* the instruction-error numbers VmInstructionError classifies
VmInstructionErrorNumbers == 1..28

\* VmxBasicExitReason::from_u32 of the whole 32-bit value
VmxBasicExitReason_from_u32(value) ==
    IF 31 \notin value /\ ToNat(value) \in VmxBasicExitReasonNumbers
    THEN [some |-> TRUE, reason |-> ToNat(value)]
    ELSE [some |-> FALSE, reason |-> 0]

VmInstructionError_from_u32(number) == number \in VmInstructionErrorNumbers

\* handle_cpuid: host CPUID of the guest's leaf/subleaf into the shadow GPRs
handle_cpuid(registers) ==
    [registers EXCEPT !.rax = "cpuid.eax", !.rbx = "cpuid.ebx",
                      !.rcx = "cpuid.ecx", !.rdx = "cpuid.edx"]

\* handle_msr_access: RDMSR places the MSR indexed by ECX in EDX:EAX, WRMSR
\* writes EDX:EAX to it
handle_msr_access(registers, access_type) ==
    IF access_type = "Read"
    THEN [registers EXCEPT !.rax = "msr.low", !.rdx = "msr.high"]
    ELSE registers

MsrAccessLog(access_type) ==
    IF access_type = "Read" THEN <<RdMsr("guest.ecx")>> ELSE <<WrMsr("guest.ecx")>>

\* the match of handle_vmexit, lines 85-90
HandlerOf(reason) ==
    CASE reason = EXIT_REASON_CPUID -> "handle_cpuid"
      [] reason = EXIT_REASON_RDMSR -> "handle_msr_access(Read)"
      [] reason = EXIT_REASON_WRMSR -> "handle_msr_access(Write)"
      [] OTHER -> "panic"

RunHandler(handler, registers) ==
    CASE handler = "handle_cpuid" -> handle_cpuid(registers)
      [] handler = "handle_msr_access(Read)" -> handle_msr_access(registers, "Read")
      [] handler = "handle_msr_access(Write)" -> handle_msr_access(registers, "Write")
      [] OTHER -> registers

HandlerMsrLog(handler) ==
    CASE handler = "handle_msr_access(Read)" -> MsrAccessLog("Read")
      [] handler = "handle_msr_access(Write)" -> MsrAccessLog("Write")
      [] OTHER -> <<>>

advance_guest_rip_twice(rip, len) == wrapping_add(wrapping_add(rip, len), len)

\* advance_guest_rip: rip += len
advance_guest_rip(rip, len) == wrapping_add(rip, len)

ExitReasonNeverRejected(basic) == FALSE

\* let Some(basic_exit_reason) = .. else { return Err(UnknownVMExitReason) }
ExitReasonRejected(basic) == ~basic.some

InstructionErrorNeverRejected(known) == FALSE

\* let Some(_error) = .. else { return Err(UnknownVMInstructionError) }
InstructionErrorRejected(known) == ~known

\* what handle_vmexit does with the fields of the exit: the Result it
\* returns (or a panic), the handler it ran, the fields it read and wrote
handle_vmexit(v) ==
    LET exit_reason == AsU32(v.exit_reason)
        basic == VmxBasicExitReason_from_u32(exit_reason)
        known == VmInstructionError_from_u32(v.vm_instruction_error)
        handler == HandlerOf(basic.reason)
        sum == advance_guest_rip(v.guest_rip, v.instruction_len)
        wraps == overflows(v.guest_rip, v.instruction_len)
    IN  IF ExitReasonRejected(basic)
        THEN [v EXCEPT !.vmreads = <<"EXIT_REASON">>,
                       !.result = "UnknownVMExitReason"]
        ELSE IF InstructionErrorRejected(known)
        THEN [v EXCEPT !.vmreads = <<"EXIT_REASON", "VM_INSTRUCTION_ERROR">>,
                       !.result = "UnknownVMInstructionError"]
        ELSE IF handler = "panic"
        THEN [v EXCEPT !.vmreads = <<"EXIT_REASON", "VM_INSTRUCTION_ERROR">>,
                       !.result = "panic"]
        ELSE IF wraps /\ v.overflow_checks
        THEN [v EXCEPT !.vmreads = <<"EXIT_REASON", "VM_INSTRUCTION_ERROR",
                                     "GUEST_RIP", "VMEXIT_INSTRUCTION_LEN">>,
                       !.handler = handler,
                       !.registers = RunHandler(handler, v.registers),
                       !.result = "panic"]
        ELSE [v EXCEPT !.vmreads = <<"EXIT_REASON", "VM_INSTRUCTION_ERROR",
                                     "GUEST_RIP", "VMEXIT_INSTRUCTION_LEN">>,
                       !.handler = handler,
                       !.registers = RunHandler(handler, v.registers),
                       !.vmwrites = <<<<"GUEST_RIP", sum>>>>,
                       !.guest_rip = sum,
                       !.result = "Ok"]

\* vmexit_handler without the null check of lines 141-144: the null pointer
\* is dereferenced
vmexit_handler_no_null_check(v) ==
    LET r == handle_vmexit(v)
    IN  CASE r.result = "panic" -> [r EXCEPT !.pc = "panicked", !.returned = "panic"]
          [] r.result = "Ok" -> [r EXCEPT !.pc = "returned", !.returned = "Continue"]
          [] OTHER -> [r EXCEPT !.pc = "returned", !.returned = "ExitHypervisor"]

\* vmexit_handler, lines 139-158
vmexit_handler(v) ==
    IF v.registers_null
    THEN [v EXCEPT !.pc = "returned", !.returned = "ExitHypervisor"]
    ELSE LET r == handle_vmexit(v)
         IN  CASE r.result = "panic" ->
                    [r EXCEPT !.pc = "panicked", !.returned = "panic"]
               [] r.result = "Ok" ->
                    [r EXCEPT !.pc = "returned", !.returned = "Continue"]
               [] OTHER ->
                    [r EXCEPT !.pc = "returned", !.returned = "ExitHypervisor"]

VmexitHandler ==
    /\ vx.pc = "exit"
    /\ vx.entry = "vmexit_handler"
    /\ vx' = vmexit_handler(vx)
    /\ msr_log' = msr_log \o HandlerMsrLog(vx'.handler)
    /\ UNCHANGED <<msr, gdt, adj, unp, pt, runVars>>

VECTOR_BREAKPOINT == 3

VECTOR_GENERAL_PROTECTION == 13

VECTOR_PAGE_FAULT == 14

\* the vectors ExceptionInterrupt classifies
ExceptionVectors == 0..21

INTR_TYPE_HARDWARE_EXCEPTION == 3

INTR_TYPE_SOFTWARE_EXCEPTION == 6

INTR_INFO_ERROR_CODE_VALID == 11

INTR_INFO_VALID == 31

IntrInfoReserved == 13..30

\* VmExitInterruptionInformation::from_u32: None when the value fails
\* structural validation
VmExitInterruptionInformation_from_u32(info) ==
    IF INTR_INFO_VALID \in info /\ info \cap IntrInfoReserved = {}
    THEN [some |-> TRUE, vector |-> ToNat(info \cap (0..7))]
    ELSE [some |-> FALSE, vector |-> 0]

ExceptionInterrupt_from_u32(vector) == vector \in ExceptionVectors

\* the VM-entry interruption-information a re-injection writes
EntryIntrInfo(vector, type, error_code_valid) ==
    FromNat(vector) \cup Shl(FromNat(type), 8, 32)
        \cup (IF error_code_valid THEN {INTR_INFO_ERROR_CODE_VALID} ELSE {})
        \cup {INTR_INFO_VALID}

\* EventInjection::vmentry_inject_pf / vmentry_inject_gp
vmentry_inject_with_error_code(vector, error_code) ==
    << <<"VMENTRY_EXCEPTION_ERR_CODE", error_code>>,
       <<"VMENTRY_INTERRUPTION_INFO_FIELD",
         EntryIntrInfo(vector, INTR_TYPE_HARDWARE_EXCEPTION, TRUE)>> >>

\* EventInjection::vmentry_inject_bp
vmentry_inject_bp ==
    << <<"VMENTRY_INTERRUPTION_INFO_FIELD",
         EntryIntrInfo(VECTOR_BREAKPOINT, INTR_TYPE_SOFTWARE_EXCEPTION, FALSE)>> >>

NoHook == [address |-> {}, kind |-> "none", handler_address |-> {}]

\* hook_manager.find_hook_by_address(rip).map(..): Some(Some(handler)) for a
\* hook of variant Function, Some(None) for another variant, None for no hook
find_hook_by_address(hook_manager, rip) ==
    IF \E h \in hook_manager : h.address = rip
    THEN CHOOSE h \in hook_manager : h.address = rip
    ELSE NoHook

HookHandlerFoundAnyVariant(hook) == hook.kind # "none"

\* if let Some(Some(handler)) = ..: a hook was found and it is of variant
\* Function
HookHandlerFound(hook) == hook.kind = "Function"

TransferToHandlerVmcsOnly(v, handler) ==
    [v EXCEPT !.guest_rip = handler,
              !.vmwrites = <<<<"GUEST_RIP", handler>>>>,
              !.handler = "hook"]

\* guest_registers.rip = handler; vmwrite(vmcs::guest::RIP, guest_registers.rip)
TransferToHandler(v, handler) ==
    [v EXCEPT !.registers.rip = handler,
              !.guest_rip = handler,
              !.vmwrites = <<<<"GUEST_RIP", handler>>>>,
              !.handler = "hook"]

\* handle_breakpoint_exception, lines 56-94
handle_breakpoint_exception(v) ==
    LET hook == find_hook_by_address(v.hook_manager, v.registers.rip)
    IN  IF HookHandlerFound(hook)
        THEN TransferToHandler(v, hook.handler_address)
        ELSE [v EXCEPT !.vmwrites = vmentry_inject_bp,
                       !.handler = "inject_bp"]

captured_error_code_dropped(v) == {}

\* interruption_error_code_value as u32
captured_error_code(v) == AsU32(v.interruption_error_code)

\* handle_exception, lines 19-54
handle_exception(v) ==
    LET reads == <<"VMEXIT_INTERRUPTION_INFO", "VMEXIT_INTERRUPTION_ERR_CODE">>
        info == VmExitInterruptionInformation_from_u32(AsU32(v.interruption_info))
        w == [v EXCEPT !.vmreads = reads]
    IN  IF ~info.some \/ ~ExceptionInterrupt_from_u32(info.vector)
        THEN [w EXCEPT !.pc = "panicked", !.result = "panic", !.returned = "panic"]
        ELSE CASE info.vector = VECTOR_PAGE_FAULT ->
                    [w EXCEPT !.vmreads = Append(reads, "EXIT_QUALIFICATION"),
                              !.vmwrites = vmentry_inject_with_error_code(
                                               VECTOR_PAGE_FAULT, captured_error_code(v)),
                              !.handler = "inject_pf",
                              !.pc = "returned", !.result = "Ok",
                              !.returned = "Continue"]
               [] info.vector = VECTOR_GENERAL_PROTECTION ->
                    [w EXCEPT !.vmwrites = vmentry_inject_with_error_code(
                                               VECTOR_GENERAL_PROTECTION,
                                               captured_error_code(v)),
                              !.handler = "inject_gp",
                              !.pc = "returned", !.result = "Ok",
                              !.returned = "Continue"]
               [] info.vector = VECTOR_BREAKPOINT ->
                    [handle_breakpoint_exception(w) EXCEPT
                              !.pc = "returned", !.result = "Ok",
                              !.returned = "Continue"]
               [] OTHER ->
                    [w EXCEPT !.pc = "panicked", !.result = "panic",
                              !.returned = "panic"]

HandleException ==
    /\ vx.pc = "exit"
    /\ vx.entry = "handle_exception"
    /\ vx' = handle_exception(vx)
    /\ UNCHANGED <<msr, msr_log, gdt, adj, unp, pt, runVars>>

(* The exits of the dispatcher's specification: exit reasons that are      *)
(* handled, classified but unhandled, and unclassified in the low 16 bits   *)
(* or only in the high 16; instruction-error numbers inside and outside the *)
(* classified range; a guest RIP at the top of the address space, where     *)
(* adding the instruction length overflows.                                 *)

ExitReasonValues ==
    {FromNat(n) : n \in {EXIT_REASON_EXCEPTION, EXIT_REASON_CPUID, EXIT_REASON_RDMSR,
                         EXIT_REASON_WRMSR, 30, 48, 35, 200}}
        \cup {FromNat(EXIT_REASON_CPUID) \cup {16}, FromNat(33) \cup {31},
              FromNat(35) \cup {31}}

InstructionErrorValues == {1, 7, 28, 29, 200}

HookedRip == {4, 12, 47}

GuestRips == {HookedRip, U64Bits, U64Bits \ {0}}

InstructionLens == {FromNat(n) : n \in 0..MaxInstructionLen}

GuestRegistersAt(rip) ==
    [rax |-> "guest", rbx |-> "guest", rcx |-> "guest", rdx |-> "guest", rip |-> rip]

DispatcherExits ==
    { [VmExitIdle EXCEPT
         !.pc = "exit", !.entry = "vmexit_handler",
         !.registers_null = null, !.overflow_checks = checks,
         !.exit_reason = reason, !.vm_instruction_error = error,
         !.guest_rip = rip, !.rip_at_exit = rip,
         !.instruction_len = len, !.registers = GuestRegistersAt(rip)] :
        null \in BOOLEAN, checks \in BOOLEAN, reason \in ExitReasonValues,
        error \in InstructionErrorValues, rip \in GuestRips, len \in InstructionLens }

ExitIntrInfos ==
    { EntryIntrInfo(VECTOR_BREAKPOINT, INTR_TYPE_SOFTWARE_EXCEPTION, FALSE),
      EntryIntrInfo(VECTOR_GENERAL_PROTECTION, INTR_TYPE_HARDWARE_EXCEPTION, TRUE),
      EntryIntrInfo(VECTOR_PAGE_FAULT, INTR_TYPE_HARDWARE_EXCEPTION, TRUE),
      EntryIntrInfo(6, INTR_TYPE_HARDWARE_EXCEPTION, FALSE),
      EntryIntrInfo(200, INTR_TYPE_HARDWARE_EXCEPTION, FALSE),
      EntryIntrInfo(VECTOR_GENERAL_PROTECTION, INTR_TYPE_HARDWARE_EXCEPTION, TRUE)
          \ {INTR_INFO_VALID},
      EntryIntrInfo(VECTOR_GENERAL_PROTECTION, INTR_TYPE_HARDWARE_EXCEPTION, TRUE)
          \cup {13} }

ErrorCodes == {{}, {3, 4}}

HookHandler == {1, 2, 3, 6, 7, 9, 11, 14, 15}

HookManagers ==
    { {},
      {[address |-> HookedRip, kind |-> "Function", handler_address |-> HookHandler]},
      {[address |-> HookedRip, kind |-> "Function", handler_address |-> {}]},
      {[address |-> HookedRip, kind |-> "Other", handler_address |-> {}]},
      {[address |-> {3, 12, 47}, kind |-> "Function", handler_address |-> HookHandler]} }

ExceptionExits ==
    { [VmExitIdle EXCEPT
         !.pc = "exit", !.entry = "handle_exception",
         !.exit_reason = FromNat(EXIT_REASON_EXCEPTION),
         !.guest_rip = HookedRip, !.rip_at_exit = HookedRip,
         !.interruption_info = info, !.interruption_error_code = code,
         !.hook_manager = hooks, !.registers = GuestRegistersAt(HookedRip)] :
        info \in ExitIntrInfos, code \in ErrorCodes, hooks \in HookManagers }

InitVmExit ==
    /\ RunIdle
    /\ msr = [m \in MsrNames |-> {}]
    /\ msr_log = <<>>
    /\ gdt = <<>>
    /\ adj = AdjustIdle
    /\ unp = UnpackIdle
    /\ pt = PageTablesIdle
    /\ vx \in DispatcherExits \cup ExceptionExits

NextVmExit == VmexitHandler \/ HandleException

SpecVmExit == InitVmExit /\ [][NextVmExit]_vars

-----------------------------------------------------------------------------
(* Properties of adjust_vmx_controls (SpecAdjust) *)

AdjAllowed0 == AsU32(msr[adj.cap_msr])

AdjAllowed1 == AsU32(Shr(msr[adj.cap_msr], 32))

AdjReturned == adj.called /\ ~adj.panicked

\* C1 as stated: for every control class, every 32-bit request and every value
\* of the selected capability MSR, the result contains every allowed0 bit,
\* (result | allowed0) == result, and no bit outside allowed1,
\* (result & ~allowed1) == 0.
C1_ResultWithinAllowedAnyMsr ==
    AdjReturned =>
        /\ BitOr(adj.value, AdjAllowed0) = adj.value
        /\ BitAnd(adj.value, U32Bits \ AdjAllowed1) = {}

\* C1 amended: the result never has a bit outside allowed1, it has every bit
\* that is set in both allowed0 and allowed1, and (result | allowed0) == result
\* whenever every allowed0 bit is also an allowed1 bit.
C1_ResultWithinAllowed ==
    AdjReturned =>
        /\ BitAnd(adj.value, U32Bits \ AdjAllowed1) = {}
        /\ BitOr(adj.value, BitAnd(AdjAllowed0, AdjAllowed1)) = adj.value
        /\ (AdjAllowed0 \subseteq AdjAllowed1 => BitOr(adj.value, AdjAllowed0) = adj.value)
        /\ adj.value \subseteq U32Bits

C1_Witness ==
    /\ AdjReturned
    /\ adj.requested = {0}
    /\ AdjAllowed0 = {31}
    /\ AdjAllowed1 = {0, 31}
    /\ adj.value = {0, 31}

CapMsrsRead == {msr_log[k][2] : k \in DOMAIN msr_log} \ {"IA32_VMX_BASIC"}

\* C2: adjust_vmx_controls reads the TRUE capability MSR of PinBased,
\* ProcessorBased, VmExit and VmEntry exactly when bit 55 of IA32_VMX_BASIC is
\* set and the non-TRUE MSR otherwise; for ProcessorBased2 it reads
\* IA32_VMX_PROCBASED_CTLS2 whatever bit 55 is.
C2_CapabilityMsrSelection ==
    adj.called =>
        /\ \A k \in DOMAIN msr_log : msr_log[k][1] = "rdmsr"
        /\ IF adj.control = "ProcessorBased2"
           THEN CapMsrsRead = {"IA32_VMX_PROCBASED_CTLS2"}
           ELSE /\ (55 \in msr["IA32_VMX_BASIC"]) <=> (CapMsrsRead = {TrueVariant(adj.control)})
                /\ (55 \notin msr["IA32_VMX_BASIC"]) <=> (CapMsrsRead = {PlainVariant(adj.control)})
        /\ adj.cap_msr \in CapMsrsRead

C2_Witness ==
    /\ adj.called
    /\ adj.control = "VmExit"
    /\ 55 \in msr["IA32_VMX_BASIC"]
    /\ msr["IA32_VMX_TRUE_EXIT_CTLS"] # msr["IA32_VMX_EXIT_CTLS"]
    /\ CapMsrsRead = {"IA32_VMX_TRUE_EXIT_CTLS"}

-----------------------------------------------------------------------------
(* Properties of unpack_gdt_entry (SpecGdt) *)

UnpIndex == unp.selector \div 8

UnpInRange == unp.called /\ UnpIndex >= 1 /\ UnpIndex < Len(gdt)

UnpSource == gdt[UnpIndex + 1]

\* C3: for every GDT and every selector s whose index s/8 lies in
\* [1, gdt_len), the unpacked base is base_low | base_middle<<16 |
\* base_high<<24, the limit is limit_low | (granularity & 0x0F)<<16, and a
\* clear present bit (bit 7 of the access byte) sets the unusable bit (16) of
\* access_rights.
C3_UnpackReassembles ==
    UnpInRange =>
        /\ ~unp.panicked
        /\ \A b \in U64Bits :
            /\ b \in unp.entry.base <=>
                \/ b < 16 /\ b \in UnpSource.base_low
                \/ b >= 16 /\ b < 24 /\ (b - 16) \in UnpSource.base_middle
                \/ b >= 24 /\ b < 32 /\ (b - 24) \in UnpSource.base_high
            /\ b \in unp.entry.limit <=>
                \/ b < 16 /\ b \in UnpSource.limit_low
                \/ b >= 16 /\ b < 20 /\ (b - 16) \in UnpSource.granularity
        /\ (7 \notin UnpSource.access => 16 \in unp.entry.access_rights)

C3_Witness ==
    /\ UnpInRange
    /\ ~unp.panicked
    /\ 7 \notin UnpSource.access
    /\ UnpSource.base_middle # {}
    /\ UnpSource.base_high # {}
    /\ UnpSource.granularity \cap (0..3) # {}
    /\ {23, 24} \subseteq unp.entry.base
    /\ 19 \in unp.entry.limit
    /\ 16 \in unp.entry.access_rights

\* C4: for a selector whose index is 0 the result is marked unusable
\* (access_rights bit 16 set) with base 0 and limit 0, and no GDT entry is read.
C4_NullSelectorUnusable ==
    (unp.called /\ UnpIndex = 0) =>
        /\ ~unp.panicked
        /\ 16 \in unp.entry.access_rights
        /\ unp.entry.base = {}
        /\ unp.entry.limit = {}
        /\ unp.reads = {}

C4_Witness ==
    /\ unp.called
    /\ unp.selector = 3
    /\ Len(gdt) >= 1
    /\ gdt[1].base_low # {}
    /\ gdt[1].limit_low # {}
    /\ 16 \in unp.entry.access_rights

\* C5 as stated: for a non-zero index the access-rights word has the GDT access
\* byte as its low byte and the high nibble of the granularity byte, shifted
\* right by 4, in bits 8..12.
C5_FlagsInBits8To12 ==
    UnpInRange =>
        /\ BitAnd(unp.entry.access_rights, 0..7) = UnpSource.access
        /\ Shr(BitAnd(unp.entry.access_rights, 8..11), 8)
             = Shr(BitAnd(UnpSource.granularity, 4..7), 4)

\* C5 amended: for a non-zero index the access-rights word has the GDT access
\* byte as its low byte, the high nibble of the granularity byte in bits
\* 12..15 (the nibble shifted left by 8), and bits 8..11 clear.
C5_FlagsInBits12To15 ==
    UnpInRange =>
        /\ BitAnd(unp.entry.access_rights, 0..7) = UnpSource.access
        /\ \A n \in 0..3 :
            (12 + n) \in unp.entry.access_rights <=> (4 + n) \in UnpSource.granularity
        /\ BitAnd(unp.entry.access_rights, 8..11) = {}

C5_Witness ==
    /\ UnpInRange
    /\ UnpSource.granularity = {4}
    /\ UnpSource.access = {1, 4}
    /\ unp.entry.access_rights = {1, 4, 12, 16}

-----------------------------------------------------------------------------
(* Properties of build_identity (SpecPaging) *)

\* C6: after build_identity, every PD[i][j] has present = writable = large = 1
\* and pfn equal to ((i * entries-per-PD + j) * 2 MiB) >> 12.
C6_IdentityMap ==
    pt.pc = "done" =>
        \A i \in Indices, j \in Indices :
            /\ {0, 1, 7} \subseteq pt.pd[i][j]
            /\ ToNat({b - 12 : b \in pt.pd[i][j] \cap (12..51)})
                 = ((i * TableLen + j) * (2 * 1024 * 1024)) \div 4096

C6_Witness ==
    /\ pt.pc = "done"
    /\ 63 \in pt.pd[TableLen - 1][TableLen - 1]
    /\ 12 \notin pt.pd[TableLen - 1][TableLen - 1]
    /\ pfn(pt.pd[TableLen - 1][TableLen - 1]) = (TableLen * TableLen - 1) * 512
    /\ pfn(pt.pd[1][0]) = TableLen * 512


-----------------------------------------------------------------------------
(* Properties of Vmx::run *)

Logged(entry) == \E k \in DOMAIN msr_log : msr_log[k] = entry

VmxBasicLow31 == msr["IA32_VMX_BASIC"] \cap (0..30)

RegionWordHoldsRevision(word) ==
    /\ 31 \notin word
    /\ word \cap (0..30) = VmxBasicLow31
    /\ word \subseteq U32Bits

\* C7: once the VMXON region, and once the VMCS region, has been initialized
\* (it has a physical address and its revision id has been written), word 0
\* of the region has bit 31 clear and its low 31 bits are the low 31 bits of
\* IA32_VMX_BASIC.
C7_RevisionIdWritten ==
    /\ vmx.vmxon_region_physical_address # 0 =>
          RegionWordHoldsRevision(vmx.vmxon_revision_id)
    /\ vmx.vmcs_region_physical_address # 0 =>
          RegionWordHoldsRevision(vmx.vmcs_revision_id)

\* both regions initialized from an IA32_VMX_BASIC that has bits 30, 31 and 32 set
C7_Witness ==
    /\ pc = "init_guest_register_state"
    /\ {30, 31, 32} \subseteq msr["IA32_VMX_BASIC"]
    /\ 30 \in vmx.vmxon_revision_id
    /\ 30 \in vmx.vmcs_revision_id

Cr0FixedUp == Logged(RdMsr("IA32_VMX_CR0_FIXED1"))

Cr4FixedUp == Logged(RdMsr("IA32_VMX_CR4_FIXED1"))

FixedUp(cr, flags, fixed0, fixed1) ==
    /\ BitAnd(cr, fixed1) = cr
    /\ BitAnd(BitAnd(fixed0, fixed1), flags) \subseteq cr
    /\ (fixed0 \subseteq BitAnd(fixed1, flags)) => BitOr(cr, fixed0) = cr

FeatureControlWritten(log) == \E k \in DOMAIN log : log[k] = WrMsr("IA32_FEATURE_CONTROL")

\* C9: a step of set_lock_bit, by the value IA32_FEATURE_CONTROL holds before
\* it: lock bit clear - the MSR is written with current | bit 2 | bit 0 and
\* the step succeeds; lock bit set and bit 2 clear - the step fails with
\* VMXBIOSLock and the MSR is not written; both set - the step succeeds and
\* the MSR is not written.
C9_SetLockBitCases ==
    [][pc = "set_lock_bit" =>
        LET current == msr["IA32_FEATURE_CONTROL"]
            succeeded == pc' = "set_cr0_bits" /\ outcome' = "none"
            unwritten == msr' = msr /\ ~FeatureControlWritten(msr_log')
        IN  /\ VMX_LOCK_BIT \notin current =>
                /\ FeatureControlWritten(msr_log')
                /\ msr'["IA32_FEATURE_CONTROL"] = current \cup {2, 0}
                /\ succeeded
            /\ (VMX_LOCK_BIT \in current /\ VMXON_OUTSIDE_SMX \notin current) =>
                /\ pc' = "returned"
                /\ outcome' = "VMXBIOSLock"
                /\ unwritten
            /\ (VMX_LOCK_BIT \in current /\ VMXON_OUTSIDE_SMX \in current) =>
                /\ succeeded
                /\ unwritten]_vars

\* set_lock_bit found the lock bit clear and bit 1 set, and wrote the MSR
C9_Witness ==
    /\ pc = "set_cr0_bits"
    /\ FeatureControlWritten(msr_log)
    /\ msr["IA32_FEATURE_CONTROL"] = {0, 1, 2}

HostStateWritten == "HOST_TR_SELECTOR" \in DOMAIN vmcs

\* C10: for every current GDT of n entries, the host TR selector that
\* init_host_register_state writes to the VMCS is non-zero and is n*8, the
\* selector of the TSS descriptor HostGdt appended at index n, and the host
\* CS selector written is non-zero whenever the current CS is non-zero.
C10_HostSelectorsNonZero ==
    HostStateWritten =>
        /\ vmcs["HOST_TR_SELECTOR"] # {}
        /\ ToNat(vmcs["HOST_TR_SELECTOR"]) = Len(gdt) * GDT_ENTRY_SIZE
        /\ seg.cs # 0 => vmcs["HOST_CS_SELECTOR"] # {}

HostSelectorFields ==
    { "HOST_CS_SELECTOR", "HOST_SS_SELECTOR", "HOST_DS_SELECTOR", "HOST_ES_SELECTOR",
      "HOST_FS_SELECTOR", "HOST_GS_SELECTOR", "HOST_TR_SELECTOR" }

\* C11: whatever selectors HostGdt holds, every value written to the host CS,
\* SS, DS, ES, FS, GS and TR selector fields of the VMCS has bits 0..2 (RPL
\* and TI) clear.
C11_HostSelectorsLowBitsClear ==
    \A f \in HostSelectorFields :
        f \in DOMAIN vmcs => vmcs[f] \cap {0, 1, 2} = {}

\* host state written from a DS with TI and RPL 3 and a GS with RPL 3
C11_Witness ==
    /\ HostStateWritten
    /\ vmx.host_gdt.ds = 23
    /\ vmx.host_gdt.gs = 19
    /\ vmcs["HOST_DS_SELECTOR"] = {4}
    /\ vmcs["HOST_GS_SELECTOR"] = {4}

RunOrder ==
    <<"vmxon", "vmclear", "vmptrld", "vmwrite_guest", "vmwrite_host", "vmwrite_control",
      "vmlaunch">>

Issued(instruction) == \E k \in DOMAIN vmx_log : vmx_log[k] = instruction

\* C12: in every execution of run the VMX steps are issued in the order
\* VMXON, VMCLEAR, VMPTRLD, guest field writes, host field writes, control
\* field writes, VMLAUNCH, each at most once; the VMCS is Clear only after
\* VMCLEAR and Current only after VMPTRLD; a VMCS field is written only after
\* VMPTRLD, while the VMCS is current; and when VMLAUNCH is issued the three
\* field groups are populated.
C12_RunOrder ==
    /\ Len(vmx_log) <= Len(RunOrder)
    /\ vmx_log = SubSeq(RunOrder, 1, Len(vmx_log))
    /\ vmxcpu.vmcs = "Clear" => Issued("vmclear") /\ vmxcpu.root
    /\ vmxcpu.vmcs \in {"Current", "Launched"} => Issued("vmptrld") /\ vmxcpu.root
    /\ DOMAIN vmcs # {} => Issued("vmptrld") /\ vmxcpu.vmcs \in {"Current", "Launched"}
    /\ Issued("vmlaunch") =>
          {"GUEST_CR0", "GUEST_LINK_PTR_FULL", "HOST_CR0", "HOST_IA32_SYSENTER_EIP",
           "PRIMARY_PROCBASED_EXEC_CONTROLS", "CR4_READ_SHADOW"} \subseteq DOMAIN vmcs

\* run has issued all seven steps and returned
C12_Witness ==
    /\ vmx_log = RunOrder
    /\ pc = "returned"
    /\ outcome = "Ok"

SetupErrors ==
    {"VMXBIOSLock", "VirtualToPhysicalAddressFailed", "CPUUnsupported", "VMXUnsupported"}

SetupErrorReturned == pc = "returned" /\ outcome \in SetupErrors

VmxeSetByRun == CR4_ENABLE_VMX \in cr4 /\ CR4_ENABLE_VMX \notin cpu.entry_cr4

\* C13: whenever run returns a setup error (VMXBIOSLock, a failed address
\* translation, or a probe failure), CR4.VMXE has not been set by the call
\* and VMXON has not been executed.
C13_SetupErrorLeavesCpuUntouched ==
    SetupErrorReturned =>
        /\ ~VmxeSetByRun
        /\ ~Issued("vmxon")
        /\ ~vmxcpu.root

RunStarted == pc # "enable_vmx_operation"

\* C14: the capability probe is the first step of run: on a CPU whose vendor
\* is not GenuineIntel, once run has taken its first step it has returned
\* CPUUnsupported, with CR4 as it was (VMXE still 0) and no VMX instruction
\* issued.
C14_ProbeIsFirstStep ==
    (has_intel_cpu(cpu.vendor) # "Ok" /\ RunStarted) =>
        /\ pc = "returned"
        /\ outcome = "CPUUnsupported"
        /\ cr4 = cpu.entry_cr4
        /\ vmx_log = <<>>

\* C15: vm_succeed classifies RFLAGS after a VMX instruction: ZF set gives
\* VmFailValid carrying the VM_INSTRUCTION_ERROR field, otherwise CF set gives
\* VmFailInvalid, otherwise success; with both flags set it is VmFailValid.
C15_VmSucceedClassification ==
    launch.called =>
        /\ FLAGS_ZF \in launch.flags =>
              /\ launch.result = "VmFailValid"
              /\ launch.carried = launch.vm_instruction_error
        /\ (FLAGS_ZF \notin launch.flags /\ FLAGS_CF \in launch.flags) =>
              launch.result = "VmFailInvalid"
        /\ (FLAGS_ZF \notin launch.flags /\ FLAGS_CF \notin launch.flags) =>
              launch.result = "Ok"

C15_Witness ==
    /\ launch.called
    /\ {FLAGS_CF, FLAGS_ZF} \subseteq launch.flags
    /\ launch.vm_instruction_error = 7
    /\ launch.result = "VmFailValid"
    /\ launch.carried = 7

ErrorReturnedAfterVmxon ==
    /\ pc = "returned"
    /\ outcome # "Ok"
    /\ Issued("vmxon")

\* C16: once VMXON has succeeded, every error return of run has executed
\* VMXOFF first, so the CPU is not in VMX root operation after run has
\* returned an error.
C16_VmxoffOnErrorPaths ==
    ErrorReturnedAfterVmxon =>
        /\ Issued("vmxoff")
        /\ ~vmxcpu.root

\* a CPU with VMX lets CR4.VMXE be 1 in VMX operation
SupportedCpu ==
    /\ cpu.has_vmx
    /\ CR4_ENABLE_VMX \in msr["IA32_VMX_CR4_FIXED1"]

RanThroughLaunch ==
    /\ Issued("vmlaunch")
    /\ launch.called

-----------------------------------------------------------------------------
(* Properties of the VM-exit dispatcher (SpecVmExit) *)

DispatcherDone == vx.entry = "vmexit_handler" /\ vx.pc # "exit"

\* C19: when the register pointer passed to vmexit_handler is null, it
\* returns ExitHypervisor and has read and written no VMCS field.
C19_NullPointerExits ==
    (DispatcherDone /\ vx.registers_null) =>
        /\ vx.pc = "returned"
        /\ vx.returned = "ExitHypervisor"
        /\ vx.vmreads = <<>>
        /\ vx.vmwrites = <<>>
        /\ vx.guest_rip = vx.rip_at_exit
        /\ vx.handler = "none"

C19_Witness ==
    /\ DispatcherDone
    /\ vx.registers_null
    /\ vx.exit_reason = FromNat(EXIT_REASON_CPUID)
    /\ VmInstructionError_from_u32(vx.vm_instruction_error)
    /\ vx.returned = "ExitHypervisor"
    /\ vx.vmreads = <<>>

BasicReasonUnrecognized(v) ==
    ToNat(v.exit_reason \cap (0..15)) \notin VmxBasicExitReasonNumbers

\* C20: when the low 16 bits of EXIT_REASON are not a recognized basic exit
\* reason, handle_vmexit returns UnknownVMExitReason, vmexit_handler returns
\* ExitHypervisor, no handler runs, and guest RIP and the shadow registers
\* are as they were at the exit.
C20_UnknownExitReason ==
    (DispatcherDone /\ ~vx.registers_null /\ BasicReasonUnrecognized(vx)) =>
        /\ vx.result = "UnknownVMExitReason"
        /\ vx.pc = "returned"
        /\ vx.returned = "ExitHypervisor"
        /\ vx.handler = "none"
        /\ msr_log = <<>>
        /\ vx.vmwrites = <<>>
        /\ vx.guest_rip = vx.rip_at_exit
        /\ vx.registers = GuestRegistersAt(vx.rip_at_exit)

C20_Witness ==
    /\ DispatcherDone
    /\ ~vx.registers_null
    /\ vx.exit_reason = FromNat(35)
    /\ VmInstructionError_from_u32(vx.vm_instruction_error)
    /\ vx.result = "UnknownVMExitReason"
    /\ vx.returned = "ExitHypervisor"

EmulatedReasons == {EXIT_REASON_CPUID, EXIT_REASON_RDMSR, EXIT_REASON_WRMSR}

\* a CPUID, RDMSR or WRMSR exit handed to the dispatcher with its registers
EmulatedExit(v) ==
    /\ ~v.registers_null
    /\ VmxBasicExitReason_from_u32(AsU32(v.exit_reason)).some
    /\ VmxBasicExitReason_from_u32(AsU32(v.exit_reason)).reason \in EmulatedReasons

AdvancedOnce(v) ==
    /\ v.vmwrites = <<<<"GUEST_RIP", wrapping_add(v.rip_at_exit, v.instruction_len)>>>>
    /\ v.guest_rip = wrapping_add(v.rip_at_exit, v.instruction_len)

NotAdvanced(v) ==
    /\ \A k \in DOMAIN v.vmwrites : v.vmwrites[k][1] # "GUEST_RIP"
    /\ v.guest_rip = v.rip_at_exit

OverflowPanics(v) ==
    v.overflow_checks /\ overflows(v.rip_at_exit, v.instruction_len)

EXIT_REASON_EPT_VIOLATION == 48

\* a classified exit reason handed to the dispatcher for which the core has
\* no handler
UnhandledExit(v) ==
    /\ ~v.registers_null
    /\ VmxBasicExitReason_from_u32(AsU32(v.exit_reason)).some
    /\ VmxBasicExitReason_from_u32(AsU32(v.exit_reason)).reason
           \notin EmulatedReasons \cup {EXIT_REASON_EXCEPTION, EXIT_REASON_EPT_VIOLATION}
    /\ VmInstructionError_from_u32(v.vm_instruction_error)

\* C21: for every recognized basic exit reason that has no handler, the
\* dispatcher returns ExitHypervisor to the trampoline instead of aborting.
C21_UnhandledExitReturnsExitHypervisor ==
    (DispatcherDone /\ UnhandledExit(vx)) =>
        /\ vx.pc = "returned"
        /\ vx.returned = "ExitHypervisor"

ExceptionDone == vx.entry = "handle_exception" /\ vx.pc # "exit"

ExitVector(v) == VmExitInterruptionInformation_from_u32(AsU32(v.interruption_info))

\* an exception exit whose interruption information is valid and carries
\* the given vector
ExceptionExitOf(v, vector) ==
    /\ ExitVector(v).some
    /\ ExitVector(v).vector = vector

HooksAt(v) == {h \in v.hook_manager : h.address = v.rip_at_exit}

Injected(v) ==
    \E k \in DOMAIN v.vmwrites : v.vmwrites[k][1] = "VMENTRY_INTERRUPTION_INFO_FIELD"

\* C22: on a #BP exit at guest RIP r, when the hook manager maps r to a hook
\* of variant Function with handler address h, the shadow rip and the VMCS
\* guest RIP are both h, no event is injected, the instruction length is not
\* added to RIP, and the exit continues the guest.
C22_BreakpointHookDispatch ==
    (ExceptionDone /\ ExceptionExitOf(vx, VECTOR_BREAKPOINT)) =>
        \A h \in HooksAt(vx) :
            h.kind = "Function" =>
                /\ vx.registers.rip = h.handler_address
                /\ vx.guest_rip = h.handler_address
                /\ vx.vmwrites = <<<<"GUEST_RIP", h.handler_address>>>>
                /\ ~Injected(vx)
                /\ vx.pc = "returned"
                /\ vx.returned = "Continue"

C22_Witness ==
    /\ ExceptionDone
    /\ ExceptionExitOf(vx, VECTOR_BREAKPOINT)
    /\ vx.rip_at_exit = HookedRip
    /\ \E h \in HooksAt(vx) : h.kind = "Function" /\ h.handler_address = HookHandler
    /\ vx.registers.rip = HookHandler
    /\ vx.guest_rip = HookHandler
    /\ vx.returned = "Continue"

\* the VM-entry interruption information written holds valid = 1 and the
\* given vector
InjectedVector(v, vector) ==
    \E k \in DOMAIN v.vmwrites :
        /\ v.vmwrites[k][1] = "VMENTRY_INTERRUPTION_INFO_FIELD"
        /\ INTR_INFO_VALID \in v.vmwrites[k][2]
        /\ v.vmwrites[k][2] \cap (0..7) = FromNat(vector)

RipUntouched(v) ==
    /\ v.registers.rip = v.rip_at_exit
    /\ NotAdvanced(v)

\* C23: on a #BP exit at guest RIP r, when the hook manager has no hook for
\* r or the hook found is not of variant Function, #BP is re-injected
\* (VMENTRY_INTR_INFO written with valid = 1 and vector = 3) and neither the
\* shadow rip nor the VMCS guest RIP is changed.
C23_BreakpointMissReinjects ==
    (/\ ExceptionDone
     /\ ExceptionExitOf(vx, VECTOR_BREAKPOINT)
     /\ \A h \in HooksAt(vx) : h.kind # "Function") =>
        /\ InjectedVector(vx, VECTOR_BREAKPOINT)
        /\ RipUntouched(vx)

C23_Witness ==
    /\ ExceptionDone
    /\ ExceptionExitOf(vx, VECTOR_BREAKPOINT)
    /\ \E h \in HooksAt(vx) : h.kind = "Other"
    /\ InjectedVector(vx, VECTOR_BREAKPOINT)
    /\ RipUntouched(vx)
    /\ vx.returned = "Continue"

ZeroHandlerHookAt(v) ==
    \E h \in HooksAt(v) : h.kind = "Function" /\ h.handler_address = {}

\* C24: on a #BP exit where the hook found is of variant Function but its
\* handler address is 0, guest RIP is not rewritten to 0: the hook is treated
\* as a miss and #BP is re-injected.
C24_ZeroHandlerIsAMiss ==
    (/\ ExceptionDone
     /\ ExceptionExitOf(vx, VECTOR_BREAKPOINT)
     /\ ZeroHandlerHookAt(vx)) =>
        /\ vx.guest_rip # {}
        /\ vx.registers.rip # {}
        /\ RipUntouched(vx)
        /\ InjectedVector(vx, VECTOR_BREAKPOINT)

\* the VM-entry fields written re-inject the vector as a hardware exception
\* (type 3) with error_code_valid = 1 and the given error code
ReinjectedWithErrorCode(v, vector, error_code) ==
    /\ \E k \in DOMAIN v.vmwrites :
          /\ v.vmwrites[k][1] = "VMENTRY_INTERRUPTION_INFO_FIELD"
          /\ INTR_INFO_VALID \in v.vmwrites[k][2]
          /\ INTR_INFO_ERROR_CODE_VALID \in v.vmwrites[k][2]
          /\ v.vmwrites[k][2] \cap (0..7) = FromNat(vector)
          /\ Shr(v.vmwrites[k][2] \cap (8..10), 8) = FromNat(INTR_TYPE_HARDWARE_EXCEPTION)
    /\ \E k \in DOMAIN v.vmwrites :
          /\ v.vmwrites[k][1] = "VMENTRY_EXCEPTION_ERR_CODE"
          /\ v.vmwrites[k][2] = error_code

\* C25: on an exception exit with vector 13 (#GP) or 14 (#PF), for every
\* captured error code e, the same vector is re-injected as a hardware
\* exception with error_code_valid = 1 and error code e, the exit returns
\* Continue, and guest RIP is not advanced.
C25_FaultReinjectedWithErrorCode ==
    \A vector \in {VECTOR_GENERAL_PROTECTION, VECTOR_PAGE_FAULT} :
        (ExceptionDone /\ ExceptionExitOf(vx, vector)) =>
            /\ ReinjectedWithErrorCode(vx, vector, vx.interruption_error_code)
            /\ vx.pc = "returned"
            /\ vx.returned = "Continue"
            /\ RipUntouched(vx)

C25_Witness ==
    /\ ExceptionDone
    /\ ExceptionExitOf(vx, VECTOR_GENERAL_PROTECTION)
    /\ vx.interruption_error_code = {3, 4}
    /\ ReinjectedWithErrorCode(vx, VECTOR_GENERAL_PROTECTION, {3, 4})
    /\ vx.returned = "Continue"

HandledVectors == {VECTOR_BREAKPOINT, VECTOR_GENERAL_PROTECTION, VECTOR_PAGE_FAULT}

\* an exception exit whose interruption information fails validation, or
\* whose vector is none of #PF, #GP, #BP
FatalExceptionExit(v) ==
    \/ ~ExitVector(v).some
    \/ ExitVector(v).vector \notin HandledVectors

\* C26: on an exception exit whose vector is none of #PF, #GP, #BP, or whose
\* interruption information or vector fails validation, the exception
\* handler returns ExitHypervisor; it neither injects an event nor resumes
\* the guest.
C26_FatalExceptionExitsHypervisor ==
    (ExceptionDone /\ FatalExceptionExit(vx)) =>
        /\ vx.pc = "returned"
        /\ vx.returned = "ExitHypervisor"
        /\ ~Injected(vx)

\* an exit with a recognized exit reason whose VM_INSTRUCTION_ERROR field
\* holds no known instruction-error number
UnknownInstructionErrorExit(v) ==
    /\ ~v.registers_null
    /\ VmxBasicExitReason_from_u32(AsU32(v.exit_reason)).some
    /\ ~VmInstructionError_from_u32(v.vm_instruction_error)

\* C27: on a VM exit with a recognized basic exit reason, if the
\* VM_INSTRUCTION_ERROR field holds a value that is not a known
\* instruction-error number, handle_vmexit returns UnknownVMInstructionError
\* before any handler runs: the CPUID/RDMSR/WRMSR emulation is skipped, guest
\* RIP is not advanced, and vmexit_handler returns ExitHypervisor.
C27_UnknownInstructionError ==
    (DispatcherDone /\ UnknownInstructionErrorExit(vx)) =>
        /\ vx.result = "UnknownVMInstructionError"
        /\ vx.handler = "none"
        /\ vx.registers = GuestRegistersAt(vx.rip_at_exit)
        /\ msr_log = <<>>
        /\ NotAdvanced(vx)
        /\ vx.pc = "returned"
        /\ vx.returned = "ExitHypervisor"

C27_Witness ==
    /\ DispatcherDone
    /\ UnknownInstructionErrorExit(vx)
    /\ vx.exit_reason = FromNat(EXIT_REASON_CPUID)
    /\ vx.vm_instruction_error = 29
    /\ vx.result = "UnknownVMInstructionError"
    /\ vx.returned = "ExitHypervisor"

-----------------------------------------------------------------------------
(* The width of the adjuster's argument and result (SpecAdjust) *)

HighHalf == 32..63

\* C28: adjust_vmx_controls returns a value only for requested values below
\* 2^32: for every requested value with any of bits 32..63 set it panics
\* instead of truncating, and for every requested value below 2^32 it
\* returns a 64-bit value whose bits 32..63 are clear.
C28_RequestedBeyondU32Panics ==
    adj.called =>
        /\ adj.requested \cap HighHalf # {} => adj.panicked
        /\ adj.requested \cap HighHalf = {} =>
              /\ ~adj.panicked
              /\ adj.value \subseteq U64Bits
              /\ adj.value \cap HighHalf = {}

C28_Witness ==
    /\ adj.called
    /\ adj.requested \cap HighHalf # {}
    /\ adj.requested \cap U32Bits # {}
    /\ adj.panicked

====
